---- MODULE Spec2Model ----
(***************************************************************************)
(* PRO/II language server: the lexing - parsing - symbol-resolution        *)
(* pipeline (Lexer, Parser, SymbolTable) as a state machine.               *)
(*                                                                         *)
(* Text is a sequence of one-character strings, so that scanning, case     *)
(* folding and keyword matching are computed character by character.       *)
(***************************************************************************)
EXTENDS Integers, Sequences, FiniteSets, TLC

VARIABLES
    lexer,      \* the Lexer object: [input, position, line, column, tokens]
    lpc,        \* where the caller of tokenize() is: "idle", "scan", "done"
    lcalls,     \* number of tokenize() calls started on this Lexer
    spans,      \* history: what each scanToken() call consumed and emitted
    parser,     \* the Parser object: [tokens, position, currentLine]
    ppc,        \* the place in parse()
    frame,      \* the locals of parse(), parseSection(), parseUnitOperation()
    program,    \* what parse() returned: <<Program node>>, <<>> before
    previous,   \* what parse() returned in the run before this one, or <<>>
    result,     \* what the private method called on its own returned
    table,      \* the SymbolTable object: [symbols, documentText]
    bpc,        \* where the caller of build() is: "idle", "build", "built"
    todo,       \* the add-calls build() has still to make
    tree,       \* the tree given to the last build()
    dirty,      \* history: the table held symbols when build() was called
    documents,  \* the server's open documents: uri -> <<text>>, <<>> if closed
    documentASTs, \* the server's Map of trees: uri -> <<tree>>, <<>> if none
    spc,        \* the server: "idle" between events, "hung" in a handler
    outcome     \* history: how the last event of each uri ended

lexVars == <<lexer, lpc, lcalls, spans>>

parseVars == <<parser, ppc, frame, program, previous, result>>

tableVars == <<table, bpc, todo, tree, dirty>>

serverVars == <<documents, documentASTs, spc, outcome>>

vars == <<lexVars, parseVars, tableVars, serverVars>>

(***************************************************************************)
(* Characters and strings                                                  *)
(***************************************************************************)

\* what currentChar() / peek() return past the end of the input
Nul == "NUL"

\* U+212A KELVIN SIGN: an uppercase letter whose lowercase is ASCII "k"
Kelvin == "KELVIN"

UpperLetters ==
    <<"A","B","C","D","E","F","G","H","I","J","K","L","M",
      "N","O","P","Q","R","S","T","U","V","W","X","Y","Z">>

LowerLetters ==
    <<"a","b","c","d","e","f","g","h","i","j","k","l","m",
      "n","o","p","q","r","s","t","u","v","w","x","y","z">>

Digits == {"0","1","2","3","4","5","6","7","8","9"}

Range(s) == {s[i] : i \in DOMAIN s}

IsDigit(char) == char \in Digits

IsAlpha(char) == char \in Range(LowerLetters) \/ char \in Range(UpperLetters)

IsAlphaNumeric(char) == IsAlpha(char) \/ IsDigit(char)

\* String.prototype.toUpperCase on one character
UpperChar(c) ==
    IF c \in Range(LowerLetters)
    THEN UpperLetters[CHOOSE i \in DOMAIN LowerLetters : LowerLetters[i] = c]
    ELSE c

\* String.prototype.toLowerCase on one character
LowerChar(c) ==
    IF c \in Range(UpperLetters)
    THEN LowerLetters[CHOOSE i \in DOMAIN UpperLetters : UpperLetters[i] = c]
    ELSE IF c = Kelvin THEN "k" ELSE c

toUpperCase(s) == [i \in DOMAIN s |-> UpperChar(s[i])]

toLowerCase(s) == [i \in DOMAIN s |-> LowerChar(s[i])]

(***************************************************************************)
(* Token types and the keyword table                                       *)
(***************************************************************************)

KEYWORDS ==
    <<"C","O","M","P","O","N","E","N","T">> :> "COMPONENT_DATA" @@
    <<"S","T","R","E","A","M">> :> "STREAM_DATA" @@
    <<"T","H","E","R","M","O","D","Y","N","A","M","I","C">> :> "THERMODYNAMIC_DATA" @@
    <<"U","N","I","T">> :> "UNIT_OPERATIONS" @@
    <<"F","L","A","S","H">> :> "FLASH" @@
    <<"C","O","L","U","M","N">> :> "COLUMN" @@
    <<"H","C","U","R","V","E">> :> "HCURVE" @@
    <<"H","X">> :> "HX" @@
    <<"C","O","M","P","R","E","S","S","O","R">> :> "COMPRESSOR" @@
    <<"P","U","M","P">> :> "PUMP" @@
    <<"M","I","X","E","R">> :> "MIXER" @@
    <<"S","P","L","I","T","T","E","R">> :> "SPLITTER" @@
    <<"V","A","L","V","E">> :> "VALVE" @@
    <<"R","E","A","C","T","O","R">> :> "REACTOR" @@
    <<"C","A","L","C","U","L","A","T","O","R">> :> "CALCULATOR" @@
    <<"S","T","C","A","L","C">> :> "STCALC" @@
    <<"U","I","D">> :> "UID" @@
    <<"N","A","M","E">> :> "NAME" @@
    <<"F","E","E","D">> :> "FEED" @@
    <<"P","R","O","D">> :> "PROD" @@
    <<"P","R","O","D","U","C","T">> :> "PRODUCT" @@
    <<"T","E","M","P">> :> "TEMP" @@
    <<"T","E","M","P","E","R","A","T","U","R","E">> :> "TEMPERATURE" @@
    <<"P","R","E","S">> :> "PRES" @@
    <<"P","R","E","S","S","U","R","E">> :> "PRESSURE" @@
    <<"R","A","T","E">> :> "RATE" @@
    <<"C","O","M","P">> :> "COMP" @@
    <<"L","I","B","I","D">> :> "LIBID" @@
    <<"B","A","N","K">> :> "BANK" @@
    <<"M","E","T","H","O","D">> :> "METHOD" @@
    <<"S","E","T">> :> "SET" @@
    <<"S","P","E","C">> :> "SPEC" @@
    <<"V","A","R","Y">> :> "VARY" @@
    <<"D","E","F","I","N","E">> :> "DEFINE" @@
    <<"S","R","K">> :> "SRK" @@
    <<"P","R">> :> "PR" @@
    <<"N","R","T","L">> :> "NRTL"

\* KEYWORDS.get(upperValue) || TokenType.IDENTIFIER
\* the keyword lookup on the text as written
Mut_KeywordOrIdentifier(value) ==
    IF value \in DOMAIN KEYWORDS THEN KEYWORDS[value] ELSE "IDENTIFIER"

KeywordOrIdentifier(value) ==
    IF toUpperCase(value) \in DOMAIN KEYWORDS
    THEN KEYWORDS[toUpperCase(value)]
    ELSE "IDENTIFIER"

(***************************************************************************)
(* Lexer                                                                   *)
(***************************************************************************)

LexIsAtEnd(L) == L.position >= Len(L.input)

currentChar(L) == IF LexIsAtEnd(L) THEN Nul ELSE L.input[L.position + 1]

peekChar(L) ==
    IF L.position + 1 >= Len(L.input) THEN Nul ELSE L.input[L.position + 2]

LexAdvance(L) ==
    IF ~LexIsAtEnd(L)
    THEN [L EXCEPT !.position = @ + 1, !.column = @ + 1]
    ELSE L

\* createToken that reports the column the cursor has reached
Mut_createToken(L, type, value, length, startColumn) ==
    [type |-> type, value |-> value, line |-> L.line, column |-> L.column,
     length |-> length]

createToken(L, type, value, length, startColumn) ==
    [type |-> type, value |-> value, line |-> L.line,
     column |-> startColumn, length |-> length]

PushToken(L, tok) == [L EXCEPT !.tokens = Append(@, tok)]

\* value += currentChar(); advance()   on a scan state [L, value]
Take(st) == [L |-> LexAdvance(st.L), value |-> Append(st.value, currentChar(st.L))]

RECURSIVE TakeDigits(_)
TakeDigits(st) ==
    IF IsDigit(currentChar(st.L)) THEN TakeDigits(Take(st)) ELSE st

RECURSIVE TakeWord(_)
TakeWord(st) ==
    IF IsAlphaNumeric(currentChar(st.L)) \/ currentChar(st.L) = "_"
    THEN TakeWord(Take(st))
    ELSE st

RECURSIVE TakeToEndOfLine(_)
TakeToEndOfLine(st) ==
    IF currentChar(st.L) # "\n" /\ ~LexIsAtEnd(st.L)
    THEN TakeToEndOfLine(Take(st))
    ELSE st

RECURSIVE TakeStringBody(_, _)
TakeStringBody(st, quote) ==
    IF currentChar(st.L) # quote /\ currentChar(st.L) # "\n" /\ ~LexIsAtEnd(st.L)
    THEN TakeStringBody(Take(st), quote)
    ELSE st

scanComment(L) ==
    LET st == TakeToEndOfLine(Take([L |-> L, value |-> <<>>]))
    IN  PushToken(st.L,
            createToken(st.L, "COMMENT", st.value, Len(st.value), L.column))

scanNumber(L) ==
    LET s0 == [L |-> L, value |-> <<>>]
        s1 == IF currentChar(L) = "-" THEN Take(s0) ELSE s0
        s2 == TakeDigits(s1)
        s3 == IF currentChar(s2.L) = "." /\ IsDigit(peekChar(s2.L))
              THEN TakeDigits(Take(s2))
              ELSE s2
        s4 == IF currentChar(s3.L) \in {"E", "e"}
              THEN LET e1 == Take(s3)
                       e2 == IF currentChar(e1.L) \in {"+", "-"}
                             THEN Take(e1) ELSE e1
                   IN  TakeDigits(e2)
              ELSE s3
    IN  PushToken(s4.L,
            createToken(s4.L, "NUMBER", s4.value, Len(s4.value), L.column))

scanIdentifier(L) ==
    LET st == TakeWord([L |-> L, value |-> <<>>])
    IN  PushToken(st.L,
            createToken(st.L, KeywordOrIdentifier(st.value), st.value,
                        Len(st.value), L.column))

\* scanString that leaves the closing quote out of the token text
Mut_scanString(L, quote) ==
    LET s1 == TakeStringBody(
                  [L |-> LexAdvance(L), value |-> <<quote>>], quote)
        s2 == IF currentChar(s1.L) = quote
              THEN [L |-> LexAdvance(s1.L), value |-> s1.value] ELSE s1
    IN  PushToken(s2.L,
            createToken(s2.L, "STRING", s2.value, Len(s2.value), L.column))

scanString(L, quote) ==
    LET s1 == TakeStringBody(
                  [L |-> LexAdvance(L), value |-> <<quote>>], quote)
        s2 == IF currentChar(s1.L) = quote THEN Take(s1) ELSE s1
    IN  PushToken(s2.L,
            createToken(s2.L, "STRING", s2.value, Len(s2.value), L.column))

\* the single-character tokens of scanToken
OperatorType ==
    "&" :> "CONTINUATION" @@ "=" :> "EQUALS" @@ "," :> "COMMA" @@
    "/" :> "SLASH" @@ "+" :> "PLUS" @@ "-" :> "MINUS" @@ "*" :> "TIMES" @@
    "(" :> "LPAREN" @@ ")" :> "RPAREN"

\* a single-character branch that forgets to call advance()
Mut_SingleCharToken(L, type) ==
    PushToken(L, createToken(L, type, <<currentChar(L)>>, 1, L.column))

SingleCharToken(L, type) ==
    LET A == LexAdvance(L)
    IN  PushToken(A, createToken(A, type, <<currentChar(L)>>, 1, L.column))

\* one call of scanToken(): the Lexer object afterwards
scanToken(L) ==
    LET char == currentChar(L) IN
    IF char \in {" ", "\t", "\r"} THEN LexAdvance(L)
    ELSE IF char = "\n" THEN
        LET A == LexAdvance(L)
            T == PushToken(A, [type |-> "NEWLINE", value |-> <<"\n">>,
                               line |-> A.line, column |-> L.column,
                               length |-> 1])
        IN  [T EXCEPT !.line = @ + 1, !.column = 1]
    ELSE IF char \in {"$", "%"} THEN scanComment(L)
    ELSE IF char = "-" THEN
        IF IsDigit(peekChar(L)) THEN scanNumber(L)
        ELSE SingleCharToken(L, "MINUS")
    ELSE IF char \in DOMAIN OperatorType THEN
        SingleCharToken(L, OperatorType[char])
    ELSE IF IsDigit(char) THEN scanNumber(L)
    ELSE IF IsAlpha(char) THEN scanIdentifier(L)
    ELSE IF char \in {"\"", "'"} THEN scanString(L, char)
    ELSE SingleCharToken(L, "UNKNOWN")

\* new Lexer(input)
NewLexer(input) ==
    [input |-> input, position |-> 0, line |-> 1, column |-> 1, tokens |-> <<>>]

RECURSIVE tokenize(_)
\* tokenize() from call to return on a Lexer whose token list was emptied:
\* the Lexer object afterwards
tokenize(L) ==
    IF L.position < Len(L.input) THEN tokenize(scanToken(L))
    ELSE PushToken(L, createToken(L, "EOF", <<>>, 0, L.column))

(***************************************************************************)
(* Lexer actions                                                           *)
(***************************************************************************)

\* the number of tokenize() calls made on one Lexer object
MaxTokenizeCalls == 2

\* tokenize() is called: this.tokens = []
TokenizeBegin ==
    /\ lpc \in {"idle", "done"}
    /\ lcalls < MaxTokenizeCalls
    /\ lexer' = [lexer EXCEPT !.tokens = <<>>]
    /\ lpc' = "scan"
    /\ lcalls' = lcalls + 1
    /\ spans' = <<>>
    /\ UNCHANGED <<parseVars, tableVars, serverVars>>

\* one iteration of  while (position < input.length) scanToken()
ScanTokenStep ==
    /\ lpc = "scan"
    /\ lexer.position < Len(lexer.input)
    /\ lexer' = scanToken(lexer)
    /\ spans' = Append(spans,
                  [from |-> lexer.position, to |-> lexer'.position,
                   emitted |-> Len(lexer'.tokens) - Len(lexer.tokens)])
    /\ UNCHANGED <<lpc, lcalls, parseVars, tableVars, serverVars>>

\* the loop is left: push EOF and return this.tokens
TokenizeEnd ==
    /\ lpc = "scan"
    /\ ~(lexer.position < Len(lexer.input))
    /\ lexer' = PushToken(lexer, createToken(lexer, "EOF", <<>>, 0, lexer.column))
    /\ lpc' = "done"
    /\ UNCHANGED <<lcalls, spans, parseVars, tableVars, serverVars>>

NextLex == TokenizeBegin \/ ScanTokenStep \/ TokenizeEnd

(***************************************************************************)
(* Parser: cursor helpers.  A parser state p is the Parser object           *)
(* [tokens, position, currentLine].                                        *)
(***************************************************************************)

\* TokenType.COMPONENT, DATA, STREAM, THERMODYNAMIC, PRINT, TYPE, INPUT and
\* RESULT, which the parser names, are not members of the enum of types.ts:
\* each is undefined, the type of no token.
Undefined == "undefined"

\* new Parser(tokens)
NewParser(tokens) == [tokens |-> tokens, position |-> 0, currentLine |-> 1]

current(p) == p.tokens[p.position + 1]

isAtEnd(p) ==
    IF p.position >= Len(p.tokens) THEN TRUE ELSE current(p).type = "EOF"

check(p, type) == IF isAtEnd(p) THEN FALSE ELSE current(p).type = type

checkNext(p, type) ==
    /\ ~(p.position + 1 >= Len(p.tokens))
    /\ p.tokens[p.position + 2].type = type

\* advance() that does not test isAtEnd()
Mut_advance(p) ==
    [p EXCEPT !.position = @ + 1, !.currentLine = current(p).line]

advance(p) ==
    IF ~isAtEnd(p)
    THEN [p EXCEPT !.position = @ + 1, !.currentLine = current(p).line]
    ELSE p

\* consume(type): [p, ok]
consume(p, type) ==
    IF check(p, type) THEN [p |-> advance(p), ok |-> TRUE]
    ELSE [p |-> p, ok |-> FALSE]

RECURSIVE consumeNewlines(_)
consumeNewlines(p) ==
    IF check(p, "NEWLINE") THEN consumeNewlines(advance(p)) ELSE p

RECURSIVE skipWhitespaceAndComments(_)
skipWhitespaceAndComments(p) ==
    IF check(p, "NEWLINE") \/ check(p, "COMMENT")
    THEN skipWhitespaceAndComments(advance(p))
    ELSE p

\* the rest of the line is left where it is
Mut_advanceLine(p) == consumeNewlines(p)

RECURSIVE advanceLine(_)
advanceLine(p) ==
    IF ~isAtEnd(p) /\ ~check(p, "NEWLINE") THEN advanceLine(advance(p))
    ELSE consumeNewlines(p)

\* at the end of the input the line is the one the parser started on
Mut_getCurrentLine(p) == IF isAtEnd(p) THEN 1 ELSE current(p).line

getCurrentLine(p) == IF isAtEnd(p) THEN p.currentLine ELSE current(p).line

isUnitOperationType(type) ==
    type \in {"FLASH", "COLUMN", "HCURVE", "HX", "COMPRESSOR", "PUMP", "MIXER",
              "SPLITTER", "VALVE", "REACTOR", "CALCULATOR", "STCALC"}

\* TEMP, PRES, RATE, and TYPE, INPUT, RESULT (undefined)
isParameterKeyword(type) == type \in {"TEMP", "PRES", "RATE", Undefined}

isNextSection(p) ==
    \/ check(p, Undefined) /\ checkNext(p, Undefined)    \* COMPONENT DATA
    \/ check(p, Undefined) /\ checkNext(p, Undefined)    \* STREAM DATA
    \/ check(p, Undefined) /\ checkNext(p, Undefined)    \* THERMODYNAMIC DATA
    \/ check(p, "UNIT_OPERATIONS")
    \/ check(p, Undefined)                               \* PRINT

\* only a comma after the first value makes a list
Mut_isListStart(p) ==
    IF ~check(p, "NUMBER") /\ ~check(p, "IDENTIFIER") THEN FALSE
    ELSE checkNext(p, "COMMA")

isListStart(p) ==
    IF ~check(p, "NUMBER") /\ ~check(p, "IDENTIFIER") THEN FALSE
    ELSE checkNext(p, "COMMA") \/ checkNext(p, "SLASH")

(***************************************************************************)
(* parseFloat.  The value is kept exact: a number is                       *)
(* (-1)^neg * mant * 10^exp with mant not divisible by 10, zero has exp 0, *)
(* and NaN is the value of a text that starts with no number.              *)
(***************************************************************************)

DigitValue(c) ==
    CASE c = "0" -> 0 [] c = "1" -> 1 [] c = "2" -> 2 [] c = "3" -> 3
      [] c = "4" -> 4 [] c = "5" -> 5 [] c = "6" -> 6 [] c = "7" -> 7
      [] c = "8" -> 8 [] c = "9" -> 9

RECURSIVE DigitRun(_, _)
\* length of the run of digits of s that starts at index i
DigitRun(s, i) ==
    IF i <= Len(s) /\ IsDigit(s[i]) THEN 1 + DigitRun(s, i + 1) ELSE 0

RECURSIVE DigitsValue(_)
DigitsValue(ds) ==
    IF ds = <<>> THEN 0
    ELSE 10 * DigitsValue(SubSeq(ds, 1, Len(ds) - 1)) + DigitValue(ds[Len(ds)])

RECURSIVE Normalize(_)
Normalize(v) ==
    IF v.mant = 0 THEN [v EXCEPT !.neg = FALSE, !.exp = 0]
    ELSE IF v.mant % 10 = 0
         THEN Normalize([v EXCEPT !.mant = @ \div 10, !.exp = @ + 1])
         ELSE v

NaN == [nan |-> TRUE, neg |-> FALSE, mant |-> 0, exp |-> 0]

\* the exponent part of s at index i: its value, 0 when it has no digits
Exponent(s, i) ==
    LET Signed(sign) ==
            LET Mantissa(from) ==
                    LET Value(n) ==
                            IF n = 0 THEN 0
                            ELSE (IF sign /\ s[i + 1] = "-" THEN -1 ELSE 1)
                                 * DigitsValue(SubSeq(s, from, from + n - 1))
                    IN  Value(DigitRun(s, from))
            IN  Mantissa(IF sign THEN i + 2 ELSE i + 1)
    IN  IF i <= Len(s) /\ s[i] \in {"E", "e"}
        THEN Signed(i + 1 <= Len(s) /\ s[i + 1] \in {"+", "-"})
        ELSE 0

parseFloat(s) ==
    LET From(i0) ==
            LET Integer(nInt) ==
                    LET Fraction(dot, nFr) ==
                            IF nInt + nFr = 0 THEN NaN
                            ELSE Normalize(
                                   [nan |-> FALSE,
                                    neg |-> i0 = 2,
                                    mant |-> DigitsValue(
                                        SubSeq(s, i0, i0 + nInt - 1) \o
                                        SubSeq(s, i0 + nInt + 1, i0 + nInt + nFr)),
                                    exp |-> Exponent(s, i0 + nInt + dot + nFr)
                                            - nFr])
                    IN  IF i0 + nInt <= Len(s) /\ s[i0 + nInt] = "."
                        THEN Fraction(1, DigitRun(s, i0 + nInt + 1))
                        ELSE Fraction(0, 0)
            IN  Integer(DigitRun(s, i0))
    IN  From(IF s # <<>> /\ s[1] = "-" THEN 2 ELSE 1)

(***************************************************************************)
(* Parser: value, parameter and reference parsers.  Each returns           *)
(* [p, node]: the parser afterwards and <<node>>, or <<>> for null.        *)
(***************************************************************************)

parseNumber(p) ==
    [p |-> advance(p),
     node |-> <<[type |-> "Number", startLine |-> current(p).line,
                 endLine |-> current(p).line,
                 value |-> parseFloat(current(p).value),
                 raw |-> current(p).value]>>]

parseIdentifier(p) ==
    [p |-> advance(p),
     node |-> <<[type |-> "Identifier", startLine |-> current(p).line,
                 endLine |-> current(p).line, name |-> current(p).value]>>]

\* value.slice(1, -1) when the value starts and ends with the same quote
Dequote(value) ==
    IF /\ Len(value) >= 1
       /\ \/ value[1] = "\"" /\ value[Len(value)] = "\""
          \/ value[1] = "'" /\ value[Len(value)] = "'"
    THEN SubSeq(value, 2, Len(value) - 1)
    ELSE value

parseString(p) ==
    [p |-> advance(p),
     node |-> <<[type |-> "String", startLine |-> current(p).line,
                 endLine |-> current(p).line,
                 value |-> Dequote(current(p).value)]>>]

RECURSIVE ListRest(_, _)
\* while (check(COMMA) || check(SLASH)) of parseList: [p, values]
ListRest(p, values) ==
    LET Then(r) == ListRest(r.p, values \o r.node) IN
    IF check(p, "COMMA") \/ check(p, "SLASH") THEN
        IF check(advance(p), "NUMBER") THEN Then(parseNumber(advance(p)))
        ELSE IF check(advance(p), "IDENTIFIER")
        THEN Then(parseIdentifier(advance(p)))
        ELSE [p |-> advance(p), values |-> values]
    ELSE [p |-> p, values |-> values]

parseList(p) ==
    LET First(first) ==
            LET Rest(rest) ==
                    [p |-> rest.p,
                     node |-> <<[type |-> "List",
                                 startLine |-> getCurrentLine(p),
                                 endLine |-> getCurrentLine(rest.p),
                                 values |-> rest.values,
                                 separator |-> IF check(first.p, "SLASH")
                                               THEN "/" ELSE ","]>>]
            IN  Rest(ListRest(first.p, first.node))
    IN  First(IF check(p, "NUMBER") THEN parseNumber(p)
              ELSE IF check(p, "IDENTIFIER") THEN parseIdentifier(p)
              ELSE [p |-> p, node |-> <<>>])

parseValue(p) ==
    IF isListStart(p) THEN parseList(p)
    ELSE IF check(p, "NUMBER") THEN parseNumber(p)
    ELSE IF check(p, "STRING") THEN parseString(p)
    ELSE parseIdentifier(p)

parseParameter(p) ==
    LET Name(name) ==
            LET Value(value) ==
                    [p |-> value.p,
                     node |-> <<[type |-> "Parameter",
                                 startLine |-> getCurrentLine(p),
                                 endLine |-> getCurrentLine(value.p),
                                 name |-> name.node[1],
                                 value |-> value.node[1]]>>]
            IN  IF ~check(name.p, "EQUALS") THEN [p |-> name.p, node |-> <<>>]
                ELSE Value(parseValue(advance(name.p)))
    IN  IF ~check(p, "IDENTIFIER") /\ ~isParameterKeyword(current(p).type)
        THEN [p |-> p, node |-> <<>>]
        ELSE Name(parseIdentifier(p))

\* the tag is kept as it is written
Mut_parseStreamReference(p) ==
    LET Comma(comma) ==
            LET Typed(typed) ==
                    LET End(q) ==
                            [p |-> q,
                             node |-> <<[type |-> "StreamReference",
                                 startLine |-> getCurrentLine(p),
                                 endLine |-> getCurrentLine(q),
                                 streamName |-> parseIdentifier(p).node[1],
                                 streamType |->
                                    IF typed THEN <<current(comma.p).value>>
                                    ELSE <<>>]>>]
                    IN  End(IF typed THEN advance(comma.p) ELSE comma.p)
            IN  Typed(comma.ok /\ check(comma.p, "IDENTIFIER"))
    IN  IF ~check(p, "IDENTIFIER") THEN [p |-> p, node |-> <<>>]
        ELSE Comma(consume(advance(p), "COMMA"))

parseStreamReference(p) ==
    LET Comma(comma) ==
            LET Typed(typed) ==
                    LET End(q) ==
                            [p |-> q,
                             node |-> <<[type |-> "StreamReference",
                                 startLine |-> getCurrentLine(p),
                                 endLine |-> getCurrentLine(q),
                                 streamName |-> parseIdentifier(p).node[1],
                                 streamType |->
                                    IF typed
                                    THEN <<toUpperCase(current(comma.p).value)>>
                                    ELSE <<>>]>>]
                    IN  End(IF typed THEN advance(comma.p) ELSE comma.p)
            IN  Typed(comma.ok /\ check(comma.p, "IDENTIFIER"))
    IN  IF ~check(p, "IDENTIFIER") THEN [p |-> p, node |-> <<>>]
        ELSE Comma(consume(advance(p), "COMMA"))

(***************************************************************************)
(* Parser: sections.  The tests of parseSection for COMPONENT DATA, STREAM *)
(* DATA, THERMODYNAMIC DATA and PRINT compare with undefined token types,  *)
(* so that a section is a UNIT section or a line to skip; the statement    *)
(* parsers of those four branches are called from nowhere else.            *)
(***************************************************************************)

\* the branch parseSection takes, in the order of its tests
SectionKind(p) ==
    IF check(p, Undefined) /\ checkNext(p, Undefined) THEN "COMPONENT_DATA"
    ELSE IF check(p, Undefined) /\ checkNext(p, Undefined) THEN "STREAM_DATA"
    ELSE IF check(p, Undefined) /\ checkNext(p, Undefined)
    THEN "THERMODYNAMIC_DATA"
    ELSE IF check(p, "UNIT_OPERATIONS") THEN "UNIT_OPERATIONS"
    ELSE IF check(p, Undefined) THEN "PRINT"
    ELSE "OTHER"

SectionNode(startLine, endLine, sectionType, statements) ==
    [type |-> "Section", startLine |-> startLine, endLine |-> endLine,
     sectionType |-> sectionType, statements |-> statements]

(***************************************************************************)
(* Parser: one unit operation.  u holds the locals of parseUnitOperation.  *)
(***************************************************************************)

NoUnit ==
    [startLine |-> 0, statementType |-> <<>>, uid |-> <<>>,
     parameters |-> <<>>, feedStreams |-> <<>>, productStreams |-> <<>>]

RECURSIVE ProductStreams(_, _)
\* do { parseStreamReference } while (consume(COMMA)): [p, streams]
ProductStreams(p, streams) ==
    LET Stream(s) ==
            IF check(s.p, "COMMA")
            THEN ProductStreams(advance(s.p), streams \o s.node)
            ELSE [p |-> s.p, streams |-> streams \o s.node]
    IN  Stream(parseStreamReference(p))

\* the branches of the line loop that end in consume(COMMA): [p, unit]
UnitClause(p, u) ==
    LET Uid(id) == [p |-> id.p, unit |-> [u EXCEPT !.uid = id.node]]
        Feed(s) == [p |-> s.p, unit |-> [u EXCEPT !.feedStreams = @ \o s.node]]
        Products(r) ==
            [p |-> r.p, unit |-> [u EXCEPT !.productStreams = r.streams]]
        Parameter(r) ==
            [p |-> r.p, unit |-> [u EXCEPT !.parameters = @ \o r.node]]
    IN  IF check(p, "UID") THEN
            IF check(advance(p), "EQUALS")
            THEN Uid(parseIdentifier(advance(advance(p))))
            ELSE [p |-> advance(p), unit |-> u]
        ELSE IF check(p, "FEED") THEN Feed(parseStreamReference(advance(p)))
        ELSE IF check(p, "PROD") \/ check(p, "PRODUCT")
        THEN Products(ProductStreams(advance(p), u.productStreams))
        ELSE Parameter(parseParameter(p))

\* one iteration of the line loop of parseUnitOperation: [p, unit]
UnitLineIteration(p, u) ==
    LET Comma(r) == [p |-> consume(r.p, "COMMA").p, unit |-> r.unit] IN
    IF check(p, "CONTINUATION")
    THEN [p |-> consumeNewlines(advance(p)), unit |-> u]
    ELSE Comma(UnitClause(p, u))

UnitOperationNode(u, endLine) ==
    [type |-> "UnitOperation", statementType |-> u.statementType,
     startLine |-> u.startLine, endLine |-> endLine, uid |-> u.uid,
     parameters |-> u.parameters, feedStreams |-> u.feedStreams,
     productStreams |-> u.productStreams]

(***************************************************************************)
(* Parser: the statement parsers of the COMPONENT DATA, STREAM DATA,       *)
(* THERMODYNAMIC DATA and PRINT branches.  st holds the locals of the      *)
(* statement parser that is running; items are its components or           *)
(* parameters.                                                             *)
(***************************************************************************)

NoStatement ==
    [type |-> "none", statementType |-> "", startLine |-> 0,
     streamName |-> <<>>, dataType |-> <<>>, method |-> <<>>, items |-> <<>>]

parseComponent(p) ==
    LET Numbered(libid) ==
            LET Slash(q) ==
                    [p |-> advance(q),
                     node |-> <<[type |-> "Component",
                                 startLine |-> getCurrentLine(p),
                                 endLine |-> getCurrentLine(advance(q)),
                                 identifier |-> current(q).value,
                                 libid |-> libid.node]>>]
            IN  Slash(consume(libid.p, "SLASH").p)
        Named(q) ==
            LET Libid(r) ==
                    [p |-> r.p,
                     node |-> <<[type |-> "Component",
                                 startLine |-> getCurrentLine(p),
                                 endLine |-> getCurrentLine(r.p),
                                 identifier |-> current(p).value,
                                 libid |-> r.node]>>]
            IN  IF check(q, "SLASH") /\ check(advance(q), "NUMBER")
                THEN Libid(parseNumber(advance(q)))
                ELSE Libid([p |-> consume(q, "SLASH").p, node |-> <<>>])
    IN  IF check(p, "NUMBER") THEN Numbered(parseNumber(p))
        ELSE IF check(p, "IDENTIFIER") THEN Named(advance(p))
        ELSE [p |-> p, node |-> <<>>]

\* the head of parseComponentStatement(), up to its loop: [p, st], st.type
\* "none" where it returns null
ComponentStatementHead(p) ==
    IF check(p, "LIBID") \/ check(p, "NAME") \/ check(p, "BANK")
    THEN [p |-> advance(p),
          st |-> [NoStatement EXCEPT !.type = "ComponentData",
                                     !.statementType = current(p).type,
                                     !.startLine = getCurrentLine(p)]]
    ELSE [p |-> advanceLine(p), st |-> NoStatement]

\* the head of parseStreamStatement(): TokenType.PROP and TokenType.DATA are
\* undefined
StreamStatementHead(p) ==
    LET Type(q, dataType) ==
            LET Name(name) ==
                    [p |-> consume(name.p, "COMMA").p,
                     st |-> [NoStatement EXCEPT
                                !.type = "StreamData",
                                !.statementType =
                                    IF check(p, Undefined) THEN "PROP"
                                    ELSE "COMP",
                                !.startLine = getCurrentLine(p),
                                !.streamName = name.node,
                                !.dataType = dataType]]
            IN  Name(parseIdentifier(consume(q, "EQUALS").p))
    IN  IF check(p, Undefined) \/ check(p, "COMP")
        THEN IF check(advance(p), Undefined)
             THEN Type(advance(advance(p)), <<"D", "A", "T", "A">>)
             ELSE IF check(advance(p), "RATE")
             THEN Type(advance(advance(p)), <<"R", "A", "T", "E">>)
             ELSE Type(advance(p), <<>>)
        ELSE [p |-> advanceLine(p), st |-> NoStatement]

\* the head of parseThermodynamicStatement()
ThermodynamicStatementHead(p) ==
    LET Method(q) ==
            LET named == check(q, "SRK") \/ check(q, "PR") \/ check(q, "NRTL")
            IN  [p |-> IF named THEN advance(q) ELSE q,
                 st |-> [NoStatement EXCEPT
                            !.type = "ThermodynamicData",
                            !.statementType = current(p).type,
                            !.startLine = getCurrentLine(p),
                            !.method = IF named
                                       THEN <<toUpperCase(current(q).value)>>
                                       ELSE <<>>]]
    IN  IF check(p, "METHOD") \/ check(p, "SET") THEN Method(advance(p))
        ELSE [p |-> advanceLine(p), st |-> NoStatement]

\* one iteration of the loop of a statement parser: [p, st, break]
StatementLineIteration(p, st) ==
    LET Item(r) ==
            [p |-> consume(r.p, "COMMA").p,
             st |-> [st EXCEPT !.items = @ \o r.node],
             break |-> ~check(r.p, "COMMA")]
    IN  IF check(p, "CONTINUATION")
        THEN [p |-> consumeNewlines(advance(p)), st |-> st, break |-> FALSE]
        ELSE IF st.type = "ComponentData" THEN Item(parseComponent(p))
        ELSE Item(parseParameter(p))

\* the node a statement parser returns, the cursor being where it ends
StatementNodeOf(st, endLine) ==
    CASE st.type = "ComponentData" ->
            [type |-> "ComponentData", statementType |-> st.statementType,
             startLine |-> st.startLine, endLine |-> endLine,
             components |-> st.items]
      [] st.type = "StreamData" ->
            [type |-> "StreamData", statementType |-> st.statementType,
             startLine |-> st.startLine, endLine |-> endLine,
             streamName |-> st.streamName[1], dataType |-> st.dataType,
             parameters |-> st.items]
      [] st.type = "ThermodynamicData" ->
            [type |-> "ThermodynamicData", statementType |-> st.statementType,
             startLine |-> st.startLine, endLine |-> endLine,
             method |-> st.method, parameters |-> st.items]
      [] st.type = "PrintStatement" ->
            [type |-> "PrintStatement", statementType |-> "PRINT",
             startLine |-> st.startLine, endLine |-> endLine,
             parameters |-> st.items]

RECURSIVE PrintParameters(_, _)
\* the loop of parsePrintStatement(), which has no continuation branch
PrintParameters(p, items) ==
    LET Item(r) ==
            IF check(r.p, "COMMA")
            THEN PrintParameters(advance(r.p), items \o r.node)
            ELSE [p |-> r.p, items |-> items \o r.node]
    IN  IF ~isAtEnd(p) /\ ~check(p, "NEWLINE") THEN Item(parseParameter(p))
        ELSE [p |-> p, items |-> items]

\* TokenType.PRINT is undefined
parsePrintStatement(p) ==
    LET Parameters(r) ==
            [p |-> consumeNewlines(r.p),
             node |-> <<StatementNodeOf(
                          [NoStatement EXCEPT !.type = "PrintStatement",
                                              !.startLine = getCurrentLine(p),
                                              !.items = r.items],
                          getCurrentLine(consumeNewlines(r.p)))>>]
    IN  IF ~check(p, Undefined) THEN [p |-> p, node |-> <<>>]
        ELSE Parameters(PrintParameters(advance(p), <<>>))

(***************************************************************************)
(* Parser: parse() as one call.  A loop whose iteration leaves the cursor  *)
(* where it was repeats that iteration for ever, nothing else having       *)
(* changed: hang says that the call does not return.                       *)
(***************************************************************************)

RECURSIVE UnitLines(_, _)
\* the line loop of parseUnitOperation(): [p, unit, hang]
UnitLines(p, u) ==
    LET Iteration(it) ==
            IF it.p.position = p.position
            THEN [p |-> p, unit |-> u, hang |-> TRUE]
            ELSE UnitLines(it.p, it.unit)
    IN  IF ~isAtEnd(p) /\ ~check(p, "NEWLINE")
        THEN Iteration(UnitLineIteration(p, u))
        ELSE [p |-> p, unit |-> u, hang |-> FALSE]

\* parseUnitOperation(): [p, node, hang]
parseUnitOperation(p) ==
    LET Lines(r) ==
            [p |-> consumeNewlines(r.p),
             node |-> <<UnitOperationNode(r.unit,
                            getCurrentLine(consumeNewlines(r.p)))>>,
             hang |-> r.hang]
    IN  IF ~isUnitOperationType(current(p).type)
        THEN [p |-> p, node |-> <<>>, hang |-> FALSE]
        ELSE Lines(UnitLines(advance(p),
                    [NoUnit EXCEPT !.startLine = getCurrentLine(p),
                                   !.statementType =
                                        toUpperCase(current(p).value)]))

RECURSIVE UnitStatements(_, _)
\* the statement loop of a UNIT section: [p, statements, hang]
UnitStatements(p, statements) ==
    LET Statement(r) ==
            LET Skipped(q) ==
                    IF r.hang \/ q.position = p.position
                    THEN [p |-> q, statements |-> statements, hang |-> TRUE]
                    ELSE UnitStatements(q, statements \o r.node)
            IN  Skipped(skipWhitespaceAndComments(r.p))
    IN  IF ~isAtEnd(p) /\ ~isNextSection(p)
        THEN Statement(parseUnitOperation(p))
        ELSE [p |-> p, statements |-> statements, hang |-> FALSE]

\* parseSection(), the branches that tokens can take: [p, node, hang]
parseSection(p) ==
    LET Unit(r) ==
            [p |-> r.p,
             node |-> <<SectionNode(getCurrentLine(p), getCurrentLine(r.p),
                                    "UNIT_OPERATIONS", r.statements)>>,
             hang |-> r.hang]
    IN  IF SectionKind(p) = "UNIT_OPERATIONS"
        THEN Unit(UnitStatements(consumeNewlines(advance(p)), <<>>))
        ELSE [p |-> advanceLine(p), node |-> <<>>, hang |-> FALSE]

RECURSIVE Sections(_, _)
\* the loop of parse(): [p, sections, hang]
Sections(p, sections) ==
    LET Section(r) ==
            LET Skipped(q) ==
                    IF r.hang \/ q.position = p.position
                    THEN [p |-> q, sections |-> sections, hang |-> TRUE]
                    ELSE Sections(q, sections \o r.node)
            IN  Skipped(skipWhitespaceAndComments(r.p))
    IN  IF ~isAtEnd(p) THEN Section(parseSection(p))
        ELSE [p |-> p, sections |-> sections, hang |-> FALSE]

\* new Parser(tokens).parse(): [hang, node], node the Program if it returns
parse(tokens) ==
    LET Program(r) ==
            [hang |-> r.hang,
             node |-> IF r.hang THEN <<>>
                      ELSE <<[type |-> "Program", startLine |-> 1,
                              endLine |-> r.p.currentLine,
                              sections |-> r.sections]>>]
    IN  Program(Sections(skipWhitespaceAndComments(NewParser(tokens)), <<>>))

(***************************************************************************)
(* Parser actions: parse() step by step.  ppc is the place in parse():     *)
(*   "new"      constructed, parse() not called                            *)
(*   "top"      at the test of the loop of parse()                         *)
(*   "unitsec"  at the test of the statement loop of a UNIT section        *)
(*   "unitop"   parseUnitOperation() is called                             *)
(*   "unitline" at the test of the line loop of parseUnitOperation()       *)
(*   "unitbody" in the body of that loop                                   *)
(*   "done"     parse() has returned                                       *)
(***************************************************************************)

NoFrame ==
    [sections |-> <<>>, startLine |-> 0, statements |-> <<>>, unit |-> NoUnit,
     stmt |-> NoStatement]

\* parse() is called: skip initial comments and newlines
ParseBegin ==
    /\ ppc = "new"
    /\ parser' = skipWhitespaceAndComments(parser)
    /\ frame' = NoFrame
    /\ ppc' = "top"
    /\ UNCHANGED <<program, previous, result, lexVars, tableVars, serverVars>>

\* the loop of parse() is left: return the Program node
ParseEnd ==
    /\ ppc = "top"
    /\ isAtEnd(parser)
    /\ program' = <<[type |-> "Program", startLine |-> 1,
                     endLine |-> parser.currentLine,
                     sections |-> frame.sections]>>
    /\ ppc' = "done"
    /\ UNCHANGED <<parser, frame, previous,
                   result, lexVars, tableVars, serverVars>>

\* one iteration of the loop of parse(): parseSection() skips the line and
\* returns null
ParseSection ==
    /\ ppc = "top"
    /\ ~isAtEnd(parser)
    /\ SectionKind(parser) = "OTHER"
    /\ parser' = skipWhitespaceAndComments(advanceLine(parser))
    /\ UNCHANGED <<ppc, frame, program, previous,
                   result, lexVars, tableVars, serverVars>>

\* parseSection() on a UNIT token: advance, consumeNewlines
UnitSectionEnter ==
    /\ ppc = "top"
    /\ ~isAtEnd(parser)
    /\ SectionKind(parser) = "UNIT_OPERATIONS"
    /\ parser' = consumeNewlines(advance(parser))
    /\ frame' = [frame EXCEPT !.startLine = getCurrentLine(parser),
                              !.statements = <<>>]
    /\ ppc' = "unitsec"
    /\ UNCHANGED <<program, previous, result, lexVars, tableVars, serverVars>>

\* the test of the statement loop holds: call parseUnitOperation()
UnitSectionNext ==
    /\ ppc = "unitsec"
    /\ ~isAtEnd(parser) /\ ~isNextSection(parser)
    /\ ppc' = "unitop"
    /\ UNCHANGED <<parser, frame, program, previous,
                   result, lexVars, tableVars, serverVars>>

\* the statement loop is left: the section is pushed, back in parse()
UnitSectionExit ==
    /\ ppc = "unitsec"
    /\ ~(~isAtEnd(parser) /\ ~isNextSection(parser))
    /\ frame' = [frame EXCEPT
                    !.sections = Append(@, SectionNode(frame.startLine,
                                     getCurrentLine(parser), "UNIT_OPERATIONS",
                                     frame.statements)),
                    !.startLine = 0, !.statements = <<>>]
    /\ parser' = skipWhitespaceAndComments(parser)
    /\ ppc' = "top"
    /\ UNCHANGED <<program, previous, result, lexVars, tableVars, serverVars>>

\* parseUnitOperation() returns null: the token is no unit-operation keyword
UnitOperationReject ==
    /\ ppc = "unitop"
    /\ ~isUnitOperationType(current(parser).type)
    /\ parser' = skipWhitespaceAndComments(parser)
    /\ ppc' = "unitsec"
    /\ UNCHANGED <<frame, program, previous,
                   result, lexVars, tableVars, serverVars>>

\* parseUnitOperation() takes the unit-operation keyword
UnitOperationEnter ==
    /\ ppc = "unitop"
    /\ isUnitOperationType(current(parser).type)
    /\ frame' = [frame EXCEPT !.unit =
                    [NoUnit EXCEPT !.startLine = getCurrentLine(parser),
                                   !.statementType =
                                        toUpperCase(current(parser).value)]]
    /\ parser' = advance(parser)
    /\ ppc' = "unitline"
    /\ UNCHANGED <<program, previous, result, lexVars, tableVars, serverVars>>

\* the test of the line loop holds
UnitLineNext ==
    /\ ppc = "unitline"
    /\ ~isAtEnd(parser) /\ ~check(parser, "NEWLINE")
    /\ ppc' = "unitbody"
    /\ UNCHANGED <<parser, frame, program, previous,
                   result, lexVars, tableVars, serverVars>>

\* the body of the line loop
UnitLineBody ==
    /\ ppc = "unitbody"
    /\ parser' = UnitLineIteration(parser, frame.unit).p
    /\ frame' = [frame EXCEPT !.unit = UnitLineIteration(parser, @).unit]
    /\ ppc' = "unitline"
    /\ UNCHANGED <<program, previous, result, lexVars, tableVars, serverVars>>

\* the line loop is left: the unit operation is pushed, back in the section
UnitOperationExit ==
    /\ ppc = "unitline"
    /\ ~(~isAtEnd(parser) /\ ~check(parser, "NEWLINE"))
    /\ frame' = [frame EXCEPT
                    !.statements = Append(@, UnitOperationNode(frame.unit,
                                        getCurrentLine(consumeNewlines(parser)))),
                    !.unit = NoUnit]
    /\ parser' = skipWhitespaceAndComments(consumeNewlines(parser))
    /\ ppc' = "unitsec"
    /\ UNCHANGED <<program, previous, result, lexVars, tableVars, serverVars>>

NextParse ==
    \/ ParseBegin \/ ParseEnd \/ ParseSection
    \/ UnitSectionEnter \/ UnitSectionNext \/ UnitSectionExit
    \/ UnitOperationReject \/ UnitOperationEnter
    \/ UnitLineNext \/ UnitLineBody \/ UnitOperationExit

(***************************************************************************)
(* Parser actions: one private method called on a new Parser.  ppc is then *)
(*   "stmtline"  at the test of the loop of a statement parser             *)
(*   "stmtend"   that loop was left by break                               *)
(*   "hung"      the method does not return                                *)
(*   the method's name once it has returned, result being what it returned *)
(***************************************************************************)

MethodOf(type) ==
    CASE type = "ComponentData" -> "parseComponentStatement"
      [] type = "StreamData" -> "parseStreamStatement"
      [] type = "ThermodynamicData" -> "parseThermodynamicStatement"

\* a method that runs no loop of its own is called and returns r = [p, node]
Return(method, r) ==
    /\ parser' = r.p
    /\ result' = r.node
    /\ ppc' = method
    /\ UNCHANGED <<frame, program, previous, lexVars, tableVars, serverVars>>

CallParameter ==
    /\ ppc = "new"
    /\ Return("parseParameter", parseParameter(parser))

CallValue ==
    /\ ppc = "new"
    /\ Return("parseValue", parseValue(parser))

CallStreamReference ==
    /\ ppc = "new"
    /\ Return("parseStreamReference", parseStreamReference(parser))

CallComponent ==
    /\ ppc = "new"
    /\ Return("parseComponent", parseComponent(parser))

CallPrintStatement ==
    /\ ppc = "new"
    /\ Return("parsePrintStatement", parsePrintStatement(parser))

\* parseUnitOperation() is called: it returns or stays in its line loop
CallUnitOperation ==
    /\ ppc = "new"
    /\ parser' = parseUnitOperation(parser).p
    /\ result' = IF parseUnitOperation(parser).hang THEN <<>>
                 ELSE parseUnitOperation(parser).node
    /\ ppc' = IF parseUnitOperation(parser).hang THEN "hung"
              ELSE "parseUnitOperation"
    /\ UNCHANGED <<frame, program, previous, lexVars, tableVars, serverVars>>

\* a statement parser is called: it returns null after advanceLine(), or
\* comes to its loop with the locals of head
StatementEnter(type, head) ==
    /\ parser' = head.p
    /\ frame' = [frame EXCEPT !.stmt = head.st]
    /\ result' = <<>>
    /\ ppc' = IF head.st.type = "none" THEN MethodOf(type) ELSE "stmtline"
    /\ UNCHANGED <<program, previous, lexVars, tableVars, serverVars>>

ComponentStatementEnter ==
    /\ ppc = "new"
    /\ StatementEnter("ComponentData", ComponentStatementHead(parser))

StreamStatementEnter ==
    /\ ppc = "new"
    /\ StatementEnter("StreamData", StreamStatementHead(parser))

ThermodynamicStatementEnter ==
    /\ ppc = "new"
    /\ StatementEnter("ThermodynamicData", ThermodynamicStatementHead(parser))

\* the test of the loop holds: one iteration
StatementLineBody ==
    /\ ppc = "stmtline"
    /\ ~isAtEnd(parser) /\ ~check(parser, "NEWLINE")
    /\ parser' = StatementLineIteration(parser, frame.stmt).p
    /\ frame' = [frame EXCEPT
                    !.stmt = StatementLineIteration(parser, @).st]
    /\ ppc' = IF StatementLineIteration(parser, frame.stmt).break
              THEN "stmtend" ELSE "stmtline"
    /\ UNCHANGED <<program, previous, result, lexVars, tableVars, serverVars>>

\* the loop is left: consumeNewlines(), the statement node is returned
StatementExit ==
    /\ \/ ppc = "stmtend"
       \/ ppc = "stmtline" /\ ~(~isAtEnd(parser) /\ ~check(parser, "NEWLINE"))
    /\ parser' = consumeNewlines(parser)
    /\ result' = <<StatementNodeOf(frame.stmt,
                                   getCurrentLine(consumeNewlines(parser)))>>
    /\ frame' = [frame EXCEPT !.stmt = NoStatement]
    /\ ppc' = MethodOf(frame.stmt.type)
    /\ UNCHANGED <<program, previous, lexVars, tableVars, serverVars>>

NextCall ==
    \/ CallParameter \/ CallValue \/ CallStreamReference \/ CallComponent
    \/ CallPrintStatement \/ CallUnitOperation
    \/ ComponentStatementEnter \/ StreamStatementEnter
    \/ ThermodynamicStatementEnter \/ StatementLineBody \/ StatementExit
    \/ ParseBegin \/ ParseEnd \/ ParseSection

(***************************************************************************)
(* Symbol table: a table T is the SymbolTable object                       *)
(* [symbols, documentText]; symbols is the Map in insertion order, each    *)
(* symbol stored under its name.                                           *)
(***************************************************************************)

\* the table of getComponentDetails (subscript digits written as digits)
KnownComponents ==
    <<"H", "2", "O">> :>
        [type |-> "Inorganic", formula |-> "H2O", molecularWeight |-> "18.02"] @@
    <<"H", "2">> :>
        [type |-> "Inorganic Gas", formula |-> "H2", molecularWeight |-> "2.02"] @@
    <<"N", "2">> :>
        [type |-> "Inorganic Gas", formula |-> "N2", molecularWeight |-> "28.01"] @@
    <<"O", "2">> :>
        [type |-> "Inorganic Gas", formula |-> "O2", molecularWeight |-> "32.00"] @@
    <<"C", "O", "2">> :>
        [type |-> "Inorganic Gas", formula |-> "CO2", molecularWeight |-> "44.01"] @@
    <<"C", "O">> :>
        [type |-> "Inorganic Gas", formula |-> "CO", molecularWeight |-> "28.01"] @@
    <<"H", "2", "S">> :>
        [type |-> "Inorganic Gas", formula |-> "H2S", molecularWeight |-> "34.08"] @@
    <<"N", "H", "3">> :>
        [type |-> "Inorganic Gas", formula |-> "NH3", molecularWeight |-> "17.03"] @@
    <<"C", "1">> :>
        [type |-> "Hydrocarbon", formula |-> "CH4 (Methane)", molecularWeight |-> "16.04"] @@
    <<"C", "H", "4">> :>
        [type |-> "Hydrocarbon", formula |-> "CH4 (Methane)", molecularWeight |-> "16.04"] @@
    <<"C", "2">> :>
        [type |-> "Hydrocarbon", formula |-> "C2H6 (Ethane)", molecularWeight |-> "30.07"] @@
    <<"C", "2", "H", "6">> :>
        [type |-> "Hydrocarbon", formula |-> "C2H6 (Ethane)", molecularWeight |-> "30.07"] @@
    <<"E", "T", "H", "A", "N", "E">> :>
        [type |-> "Hydrocarbon", formula |-> "C2H6 (Ethane)", molecularWeight |-> "30.07"] @@
    <<"C", "3">> :>
        [type |-> "Hydrocarbon", formula |-> "C3H8 (Propane)", molecularWeight |-> "44.10"] @@
    <<"C", "3", "H", "8">> :>
        [type |-> "Hydrocarbon", formula |-> "C3H8 (Propane)", molecularWeight |-> "44.10"] @@
    <<"P", "R", "O", "P", "A", "N", "E">> :>
        [type |-> "Hydrocarbon", formula |-> "C3H8 (Propane)", molecularWeight |-> "44.10"] @@
    <<"I", "C", "4">> :>
        [type |-> "Hydrocarbon", formula |-> "C4H10 (i-Butane)", molecularWeight |-> "58.12"] @@
    <<"I", "S", "O", "B", "U", "T", "A", "N", "E">> :>
        [type |-> "Hydrocarbon", formula |-> "C4H10 (i-Butane)", molecularWeight |-> "58.12"] @@
    <<"N", "C", "4">> :>
        [type |-> "Hydrocarbon", formula |-> "C4H10 (n-Butane)", molecularWeight |-> "58.12"] @@
    <<"N", "-", "B", "U", "T", "A", "N", "E">> :>
        [type |-> "Hydrocarbon", formula |-> "C4H10 (n-Butane)", molecularWeight |-> "58.12"] @@
    <<"I", "C", "5">> :>
        [type |-> "Hydrocarbon", formula |-> "C5H12 (i-Pentane)", molecularWeight |-> "72.15"] @@
    <<"N", "C", "5">> :>
        [type |-> "Hydrocarbon", formula |-> "C5H12 (n-Pentane)", molecularWeight |-> "72.15"] @@
    <<"N", "C", "6">> :>
        [type |-> "Hydrocarbon", formula |-> "C6H14 (n-Hexane)", molecularWeight |-> "86.18"] @@
    <<"N", "C", "7">> :>
        [type |-> "Hydrocarbon", formula |-> "C7H16 (n-Heptane)", molecularWeight |-> "100.20"] @@
    <<"N", "C", "8">> :>
        [type |-> "Hydrocarbon", formula |-> "C8H18 (n-Octane)", molecularWeight |-> "114.23"] @@
    <<"N", "C", "9">> :>
        [type |-> "Hydrocarbon", formula |-> "C9H20 (n-Nonane)", molecularWeight |-> "128.26"] @@
    <<"N", "C", "1", "0">> :>
        [type |-> "Hydrocarbon", formula |-> "C10H22 (n-Decane)", molecularWeight |-> "142.28"] @@
    <<"N", "C", "1", "2">> :>
        [type |-> "Hydrocarbon", formula |-> "C12H26 (n-Dodecane)", molecularWeight |-> "170.34"] @@
    <<"N", "C", "1", "3">> :>
        [type |-> "Hydrocarbon", formula |-> "C13H28 (n-Tridecane)", molecularWeight |-> "184.36"] @@
    <<"N", "C", "1", "4">> :>
        [type |-> "Hydrocarbon", formula |-> "C14H30 (n-Tetradecane)", molecularWeight |-> "198.39"] @@
    <<"N", "C", "1", "5">> :>
        [type |-> "Hydrocarbon", formula |-> "C15H32 (n-Pentadecane)", molecularWeight |-> "212.41"] @@
    <<"N", "C", "1", "6">> :>
        [type |-> "Hydrocarbon", formula |-> "C16H34 (n-Hexadecane)", molecularWeight |-> "226.44"] @@
    <<"B", "E", "N", "Z", "E", "N", "E">> :>
        [type |-> "Aromatic", formula |-> "C6H6", molecularWeight |-> "78.11"] @@
    <<"T", "O", "L", "U", "E", "N", "E">> :>
        [type |-> "Aromatic", formula |-> "C7H8", molecularWeight |-> "92.14"] @@
    <<"E", "T", "H", "Y", "L", "B", "E", "N", "Z", "E", "N", "E">> :>
        [type |-> "Aromatic", formula |-> "C8H10", molecularWeight |-> "106.17"] @@
    <<"X", "Y", "L", "E", "N", "E">> :>
        [type |-> "Aromatic", formula |-> "C8H10", molecularWeight |-> "106.17"]

getComponentDetails(name) ==
    IF name \in DOMAIN KnownComponents THEN <<KnownComponents[name]>> ELSE <<>>

\* symbols: the entries of the Map in insertion order, each the key and the
\* fields of the Symbol stored under it
has(symbols, name) == \E i \in DOMAIN symbols : symbols[i].key = name

IndexOf(symbols, name) == CHOOSE i \in DOMAIN symbols : symbols[i].key = name

\* symbols.get(name): <<symbol>>, or <<>> for undefined
get(symbols, name) ==
    IF has(symbols, name) THEN <<symbols[IndexOf(symbols, name)]>> ELSE <<>>

IsWhite(c) == c \in {" ", "\t", "\r", "\n"}

RECURSIVE SkipWhite(_, _)
\* \s* from index i: the index after it
SkipWhite(s, i) ==
    IF i <= Len(s) /\ IsWhite(s[i]) THEN SkipWhite(s, i + 1) ELSE i

RECURSIVE NumberRun(_, _)
\* [\d.]* from index i: its length
NumberRun(s, i) ==
    IF i <= Len(s) /\ (IsDigit(s[i]) \/ s[i] = ".")
    THEN 1 + NumberRun(s, i + 1) ELSE 0

RECURSIVE UnitRun(_, _)
\* [^)]* from index i: its length
UnitRun(s, i) ==
    IF i <= Len(s) /\ s[i] # ")" THEN 1 + UnitRun(s, i + 1) ELSE 0

WordAt(s, i, word) ==
    /\ i + Len(word) - 1 <= Len(s)
    /\ \A k \in 1..Len(word) : UpperChar(s[i + k - 1]) = word[k]

NoMatch == [ok |-> FALSE, unit |-> <<>>, number |-> <<>>]

\* A match of  WORD(?:SUFFIX)?\s*(?:\(([^)]+)\))?\s*=\s*([\d.]+)  with flag i
\* that starts at index i, the group in parentheses being part of the
\* pattern only when units is TRUE: [ok, unit, number]
PropertyAt(s, i, word, suffix, units) ==
    LET Word(a) ==
            LET Group(n) ==
                    LET Equals(b) ==
                            LET Number(c) ==
                                    IF NumberRun(s, c) = 0 THEN NoMatch
                                    ELSE [ok |-> TRUE,
                                          unit |-> SubSeq(s, a + 1, a + n),
                                          number |-> SubSeq(s, c,
                                                 c + NumberRun(s, c) - 1)]
                            IN  IF b <= Len(s) /\ s[b] = "="
                                THEN Number(SkipWhite(s, b + 1))
                                ELSE NoMatch
                    IN  Equals(SkipWhite(s, IF n > 0 THEN a + n + 2 ELSE a))
            IN  IF /\ units /\ a <= Len(s) /\ s[a] = "("
                   /\ UnitRun(s, a + 1) >= 1
                   /\ a + UnitRun(s, a + 1) + 1 <= Len(s)
                THEN Group(UnitRun(s, a + 1))
                ELSE Group(0)
    IN  IF ~WordAt(s, i, word) THEN NoMatch
        ELSE IF suffix # <<>> /\ WordAt(s, i + Len(word), suffix)
        THEN Word(SkipWhite(s, i + Len(word) + Len(suffix)))
        ELSE Word(SkipWhite(s, i + Len(word)))

\* lineText.match(...): the leftmost match, NoMatch for null
Match(s, word, suffix, units) ==
    LET Leftmost(starts) ==
            IF starts = {} THEN NoMatch
            ELSE PropertyAt(s, CHOOSE i \in starts : \A k \in starts : i <= k,
                            word, suffix, units)
    IN  Leftmost({i \in 1..Len(s) : PropertyAt(s, i, word, suffix, units).ok})

NoProperties == [temp |-> <<>>, pres |-> <<>>, rate |-> <<>>, rateUnit |-> <<>>]

extractStreamProperties(lineText) ==
    LET Props(tempMatch, presMatch, rateMatch) ==
            [temp |-> IF tempMatch.ok THEN <<parseFloat(tempMatch.number)>>
                      ELSE <<>>,
             pres |-> IF presMatch.ok THEN <<parseFloat(presMatch.number)>>
                      ELSE <<>>,
             rate |-> IF rateMatch.ok THEN <<parseFloat(rateMatch.number)>>
                      ELSE <<>>,
             rateUnit |-> IF rateMatch.ok /\ rateMatch.unit # <<>>
                          THEN <<rateMatch.unit>> ELSE <<>>]
    IN  Props(Match(lineText, <<"T", "E", "M", "P">>, <<>>, FALSE),
              Match(lineText, <<"P", "R", "E", "S">>, <<"S", "U", "R", "E">>,
                    TRUE),
              Match(lineText, <<"R", "A", "T", "E">>, <<>>, TRUE))

\* { ...metadata, ...props } on stream metadata
MergeProperties(metadata, props) ==
    LET old == IF metadata = <<>> THEN NoProperties ELSE metadata[1]
    IN  <<[k \in DOMAIN NoProperties |->
              IF props[k] # <<>> THEN props[k] ELSE old[k]]>>

RECURSIVE SplitLines(_)
\* text.split(/\r?\n/)
SplitLines(text) ==
    LET Break(breaks) ==
            LET At(i) ==
                    <<SubSeq(text, 1, IF i > 1 /\ text[i - 1] = "\r"
                                      THEN i - 2 ELSE i - 1)>>
                    \o SplitLines(SubSeq(text, i + 1, Len(text)))
            IN  IF breaks = {} THEN <<text>>
                ELSE At(CHOOSE i \in breaks : \A k \in breaks : i <= k)
    IN  Break({i \in DOMAIN text : text[i] = "\n"})

getLineText(T, lineNumber) ==
    LET Line(lines) ==
            IF lineNumber \in DOMAIN lines THEN lines[lineNumber] ELSE <<>>
    IN  IF T.documentText = <<>> THEN <<>>
        ELSE Line(SplitLines(T.documentText))

\* addComponent that lets a later entry replace the registered one
Mut_addComponent(T, comp) ==
    LET name == toUpperCase(comp.identifier)
        symbol == [key |-> name, name |-> name, kind |-> "component",
                   definedAt |-> [line |-> comp.startLine],
                   references |-> <<>>,
                   metadata |-> <<[libid |-> IF comp.libid = <<>> THEN <<>>
                                             ELSE <<comp.libid[1].value>>,
                                   componentName |-> comp.identifier,
                                   details |-> getComponentDetails(name)]>>]
    IN  IF ~has(T.symbols, name)
        THEN [T EXCEPT !.symbols = Append(@, symbol)]
        ELSE [T EXCEPT !.symbols[IndexOf(T.symbols, name)] = symbol]

addComponent(T, comp) ==
    LET name == toUpperCase(comp.identifier) IN
    IF ~has(T.symbols, name)
    THEN [T EXCEPT !.symbols = Append(@,
            [key |-> name, name |-> name, kind |-> "component",
             definedAt |-> [line |-> comp.startLine],
             references |-> <<>>,
             metadata |-> <<[libid |-> IF comp.libid = <<>> THEN <<>>
                                       ELSE <<comp.libid[1].value>>,
                             componentName |-> comp.identifier,
                             details |-> getComponentDetails(name)]>>])]
    ELSE T

addStream(T, name, line, context, lineText) ==
    LET upperName == toUpperCase(name) IN
    IF ~has(T.symbols, upperName)
    THEN [T EXCEPT !.symbols = Append(@,
            [key |-> upperName, name |-> upperName, kind |-> "stream",
             definedAt |-> [line |-> line],
             references |-> <<[line |-> line, context |-> context]>>,
             metadata |-> <<extractStreamProperties(lineText)>>])]
    ELSE LET i == IndexOf(T.symbols, upperName)
             symbol == T.symbols[i]
         IN  IF symbol.kind = "stream"
             THEN [T EXCEPT !.symbols[i] =
                     [symbol EXCEPT
                        !.references = Append(@, [line |-> line,
                                                  context |-> context]),
                        !.metadata =
                            IF context = "definition" /\ lineText # <<>>
                            THEN MergeProperties(@,
                                     extractStreamProperties(lineText))
                            ELSE @]]
             ELSE T

\* addStreamReference that stores the name as written
Mut_addStreamReference(T, name, line, context) ==
    LET upperName == toUpperCase(name) IN
    IF ~has(T.symbols, upperName)
    THEN [T EXCEPT !.symbols = Append(@,
            [key |-> upperName, name |-> name, kind |-> "stream",
             definedAt |-> [line |-> line],
             references |-> <<[line |-> line, context |-> context]>>,
             metadata |-> <<>>])]
    ELSE [T EXCEPT !.symbols[IndexOf(T.symbols, upperName)].references =
             Append(@, [line |-> line, context |-> context])]

addStreamReference(T, name, line, context) ==
    LET upperName == toUpperCase(name) IN
    IF ~has(T.symbols, upperName)
    THEN [T EXCEPT !.symbols = Append(@,
            [key |-> upperName, name |-> upperName, kind |-> "stream",
             definedAt |-> [line |-> line],
             references |-> <<[line |-> line, context |-> context]>>,
             metadata |-> <<>>])]
    ELSE [T EXCEPT !.symbols[IndexOf(T.symbols, upperName)].references =
             Append(@, [line |-> line, context |-> context])]

\* addUnit that takes over a key that is registered already
Mut_addUnit(T, name, line, unitType) ==
    LET upperName == toUpperCase(name)
        symbol == [key |-> upperName, name |-> upperName, kind |-> "unit",
                   definedAt |-> [line |-> line],
                   references |-> <<[line |-> line, context |-> "definition"]>>,
                   metadata |-> <<[unitType |-> unitType]>>]
    IN  IF ~has(T.symbols, upperName)
        THEN [T EXCEPT !.symbols = Append(@, symbol)]
        ELSE [T EXCEPT !.symbols[IndexOf(T.symbols, upperName)] = symbol]

addUnit(T, name, line, unitType) ==
    LET upperName == toUpperCase(name) IN
    IF ~has(T.symbols, upperName)
    THEN [T EXCEPT !.symbols = Append(@,
            [key |-> upperName, name |-> upperName, kind |-> "unit",
             definedAt |-> [line |-> line],
             references |-> <<[line |-> line, context |-> "definition"]>>,
             metadata |-> <<[unitType |-> unitType]>>])]
    ELSE T

\* getSymbol(name): <<symbol>>, or <<>> for undefined
getSymbol(T, name) == get(T.symbols, toUpperCase(name))

getSymbolsByKind(T, kind) == SelectSeq(T.symbols, LAMBDA s : s.kind = kind)

\* isDefined that looks the name up as it is written
Mut_isDefined(T, name) == has(T.symbols, name)

isDefined(T, name) == has(T.symbols, toUpperCase(name))

\* the filter of getUndefinedSymbols without its test of the symbol's kind
Mut_IsUndefinedSymbol(symbol) ==
    /\ ~\E i \in DOMAIN symbol.references :
           symbol.references[i].context = "definition"
    /\ Len(symbol.references) > 0

IsUndefinedSymbol(symbol) ==
    IF symbol.kind = "stream"
    THEN /\ ~\E i \in DOMAIN symbol.references :
                symbol.references[i].context = "definition"
         /\ Len(symbol.references) > 0
    ELSE FALSE

getUndefinedSymbols(T) == SelectSeq(T.symbols, IsUndefinedSymbol)

getStats(T) ==
    [streams |-> Len(getSymbolsByKind(T, "stream")),
     units |-> Len(getSymbolsByKind(T, "unit")),
     components |-> Len(getSymbolsByKind(T, "component"))]

\* new SymbolTable()
NewSymbolTable == [symbols |-> <<>>, documentText |-> <<>>]

(***************************************************************************)
(* Symbol table: build(ast, documentText) step by step.  The traversal of  *)
(* processSection is the sequence of add-calls it makes; todo holds the    *)
(* calls still to be made.                                                 *)
(***************************************************************************)

RECURSIVE Flatten(_)
Flatten(seqs) == IF seqs = <<>> THEN <<>> ELSE Head(seqs) \o Flatten(Tail(seqs))

processComponentData(section) ==
    Flatten([i \in DOMAIN section.statements |->
        LET stmt == section.statements[i] IN
        IF stmt.type = "ComponentData"
        THEN [j \in DOMAIN stmt.components |->
                 [op |-> "addComponent", comp |-> stmt.components[j]]]
        ELSE <<>>])

processStreamData(T, section) ==
    Flatten([i \in DOMAIN section.statements |->
        LET stmt == section.statements[i] IN
        IF stmt.type = "StreamData"
        THEN <<[op |-> "addStream", name |-> stmt.streamName.name,
                line |-> stmt.startLine, context |-> "definition",
                lineText |-> getLineText(T, stmt.startLine)]>>
        ELSE <<>>])

processUnitOperations(section) ==
    Flatten([i \in DOMAIN section.statements |->
        LET stmt == section.statements[i] IN
        IF stmt.type = "UnitOperation"
        THEN (IF stmt.uid # <<>>
              THEN <<[op |-> "addUnit", name |-> stmt.uid[1].name,
                      line |-> stmt.startLine,
                      unitType |-> stmt.statementType]>>
              ELSE <<>>)
             \o [j \in DOMAIN stmt.feedStreams |->
                    [op |-> "addStreamReference",
                     name |-> stmt.feedStreams[j].streamName.name,
                     line |-> stmt.feedStreams[j].startLine,
                     context |-> "feed"]]
             \o [j \in DOMAIN stmt.productStreams |->
                    [op |-> "addStreamReference",
                     name |-> stmt.productStreams[j].streamName.name,
                     line |-> stmt.productStreams[j].startLine,
                     context |-> "product"]]
        ELSE <<>>])

processSection(T, section) ==
    CASE section.sectionType = "COMPONENT_DATA" -> processComponentData(section)
      [] section.sectionType = "STREAM_DATA" -> processStreamData(T, section)
      [] section.sectionType = "UNIT_OPERATIONS" -> processUnitOperations(section)
      [] OTHER -> <<>>

\* the add-calls of build(ast, ...) on table T, in order
Calls(T, ast) ==
    Flatten([i \in DOMAIN ast.sections |-> processSection(T, ast.sections[i])])

\* one add-call made on table T
Apply(T, call) ==
    CASE call.op = "addComponent" -> addComponent(T, call.comp)
      [] call.op = "addStream" ->
            addStream(T, call.name, call.line, call.context, call.lineText)
      [] call.op = "addUnit" -> addUnit(T, call.name, call.line, call.unitType)
      [] call.op = "addStreamReference" ->
            addStreamReference(T, call.name, call.line, call.context)

\* this.symbols.clear(); this.documentText = documentText || ''
Mut_clear(T, documentText) == [T EXCEPT !.documentText = documentText]

clear(T, documentText) == [symbols |-> <<>>, documentText |-> documentText]

RECURSIVE ApplyAll(_, _)
ApplyAll(T, calls) ==
    IF calls = <<>> THEN T ELSE ApplyAll(Apply(T, Head(calls)), Tail(calls))

\* new SymbolTable().build(ast, documentText), from call to return
FreshBuild(ast, documentText) ==
    LET Populate(T) == ApplyAll(T, Calls(T, ast))
    IN  Populate(clear(NewSymbolTable, documentText))

\* build(ast, documentText) is called
BuildBegin(ast, documentText) ==
    /\ bpc \in {"idle", "built"}
    /\ table' = clear(table, documentText)
    /\ todo' = Calls(table', ast)
    /\ tree' = ast
    /\ dirty' = (table.symbols # <<>>)
    /\ bpc' = "build"

\* the next add-call of the traversal
BuildStep ==
    /\ bpc = "build"
    /\ todo # <<>>
    /\ table' = Apply(table, Head(todo))
    /\ todo' = Tail(todo)
    /\ UNCHANGED <<bpc, tree, dirty, lexVars, parseVars, serverVars>>

\* build() returns
BuildEnd ==
    /\ bpc = "build"
    /\ todo = <<>>
    /\ bpc' = "built"
    /\ UNCHANGED <<table, todo, tree, dirty, lexVars, parseVars, serverVars>>

(***************************************************************************)
(* Trees given to build(): every statement in a section of its own, on the *)
(* line of its position, and the document text those statements stand for. *)
(***************************************************************************)

IdentifierNode(name, line) ==
    [type |-> "Identifier", startLine |-> line, endLine |-> line, name |-> name]

StreamReferenceNode(name, line) ==
    [type |-> "StreamReference", startLine |-> line, endLine |-> line,
     streamName |-> IdentifierNode(name, line), streamType |-> <<>>]

\* the statement of template t on the given line
StatementNode(t, line) ==
    CASE t.type = "UnitOperation" ->
            [type |-> "UnitOperation",
             statementType |-> <<"F", "L", "A", "S", "H">>,
             startLine |-> line, endLine |-> line,
             uid |-> [i \in DOMAIN t.uid |-> IdentifierNode(t.uid[i], line)],
             parameters |-> <<>>,
             feedStreams |-> [i \in DOMAIN t.feeds |->
                                 StreamReferenceNode(t.feeds[i], line)],
             productStreams |-> [i \in DOMAIN t.products |->
                                    StreamReferenceNode(t.products[i], line)]]
      [] t.type = "StreamData" ->
            [type |-> "StreamData", statementType |-> "COMP",
             startLine |-> line, endLine |-> line,
             streamName |-> IdentifierNode(t.name, line),
             dataType |-> <<>>, parameters |-> <<>>]
      [] t.type = "ComponentData" ->
            [type |-> "ComponentData", statementType |-> "LIBID",
             startLine |-> line, endLine |-> line,
             components |-> <<[type |-> "Component", startLine |-> line,
                               endLine |-> line, identifier |-> t.name,
                               libid |-> t.libid]>>]

SectionTypeOf(t) ==
    CASE t.type = "UnitOperation" -> "UNIT_OPERATIONS"
      [] t.type = "StreamData" -> "STREAM_DATA"
      [] t.type = "ComponentData" -> "COMPONENT_DATA"

ProgramOf(templates) ==
    [type |-> "Program", startLine |-> 1, endLine |-> Len(templates) + 1,
     sections |-> [i \in DOMAIN templates |->
        SectionNode(i, i, SectionTypeOf(templates[i]),
                    <<StatementNode(templates[i], i)>>)]]

RECURSIVE TextOf(_)
TextOf(templates) ==
    IF templates = <<>> THEN <<>>
    ELSE Head(templates).text \o <<"\n">> \o TextOf(Tail(templates))

\* statements over the names K, k, S, s: unit operations that have a UID, a
\* feed or a product, stream statements with the text of their line,
\* component statements
Templates ==
    {t \in [type : {"UnitOperation"}, uid : {<<>>, <<<<"k">>>>},
            feeds : {<<>>, <<<<"K">>>>, <<<<"s">>>>},
            products : {<<>>, <<<<"k">>>>}, text : {<<>>}] :
        /\ t.feeds = <<<<"s">>>> => t.uid = <<>> /\ t.products = <<>>
        /\ t.feeds = <<>> => (t.uid = <<>>) # (t.products = <<>>)}
    \cup
    {[type |-> "StreamData", name |-> <<"K">>,
      text |-> <<"C", "O", "M", "P", " ", "K", ",",
                 "T", "E", "M", "P", "=", "5">>],
     [type |-> "StreamData", name |-> <<"S">>,
      text |-> <<"c", "o", "m", "p", " ", "S", ",", "p", "r", "e", "s",
                 "=", "1", ".", "5", ",", "r", "a", "t", "e", " ", "(", "m",
                 ")", "=", ".", "2", "0">>]}
    \cup
    {[type |-> "ComponentData", name |-> <<"k">>,
      libid |-> <<[type |-> "Number", startLine |-> 1, endLine |-> 1,
                   value |-> parseFloat(<<"2">>), raw |-> <<"2">>]>>,
      text |-> <<>>],
     [type |-> "ComponentData", name |-> <<"K">>,
      libid |-> <<[type |-> "Number", startLine |-> 1, endLine |-> 1,
                   value |-> parseFloat(<<"3">>), raw |-> <<"3">>]>>,
      text |-> <<>>],
     [type |-> "ComponentData", name |-> <<"c", "1">>, libid |-> <<>>,
      text |-> <<>>]}

\* the most statements of a tree
MaxStatements == 3

TreeTemplates == UNION {[1..n -> Templates] : n \in 0..MaxStatements}

\* build(ast) or build(ast, documentText) on a new SymbolTable
Build ==
    /\ bpc = "idle"
    /\ \E templates \in TreeTemplates :
          \E documentText \in {<<>>, TextOf(templates)} :
             BuildBegin(ProgramOf(templates), documentText)
    /\ UNCHANGED <<lexVars, parseVars, serverVars>>

\* the trees of at most one statement
RebuildTemplates == {<<>>} \cup {<<t>> : t \in Templates}

\* build() again on the same SymbolTable, on a tree of at most one statement
Rebuild ==
    /\ bpc = "built"
    /\ \E templates \in RebuildTemplates :
          BuildBegin(ProgramOf(templates), TextOf(templates))
    /\ UNCHANGED <<lexVars, parseVars, serverVars>>

NextTable == Build \/ Rebuild \/ BuildStep \/ BuildEnd

(***************************************************************************)
(* The pipeline of the tests: new Lexer(code).tokenize(), new              *)
(* Parser(tokens).parse(), new SymbolTable().build(ast).                   *)
(***************************************************************************)

\* the component scenario
ComponentDocument ==
    <<"C", "O", "M", "P", "O", "N", "E", "N", "T", " ", "D", "A", "T", "A",
      "\n", "L", "I", "B", "I", "D", " ", "1", ",", " ", "C", "1", "/", "2",
      ",", " ", "C", "2", "/", "3", "\n">>

\* the unit-operation scenario
FlashDocument ==
    <<"F", "L", "A", "S", "H", " ", "U", "I", "D", "=", "F", "-", "1", "0",
      "0", "\n", "F", "E", "E", "D", " ", "F", "E", "E", "D", "\n", "P", "R",
      "O", "D", " ", "V", "A", "P", "O", "R", ",", " ", "L", "I", "Q", "U",
      "I", "D", "\n">>

\* the same statement under its section header, as symbolTable.test.ts writes it
UnitFlashDocument ==
    <<"U", "N", "I", "T", " ", "O", "P", "E", "R", "A", "T", "I", "O", "N",
      "S", "\n", "F", "L", "A", "S", "H", " ", "U", "I", "D", "=", "F", "-",
      "1", "0", "0", "\n", "F", "E", "E", "D", " ", "F", "E", "E", "D", "\n",
      "P", "R", "O", "D", " ", "V", "A", "P", "O", "R", ",", " ", "L", "I",
      "Q", "U", "I", "D", "\n">>

\* a unit operation on one line, with a list of two products
ProductListDocument ==
    <<"U", "N", "I", "T", "\n", "F", "L", "A", "S", "H", " ", "U", "I", "D",
      "=", "F", "1", ",", " ", "F", "E", "E", "D", " ", "S", "1", ",", " ",
      "P", "R", "O", "D", " ", "V", "1", ",", " ", "L", "1", "\n">>

\* a unit operation fed by a stream of its own name
SharedNameDocument ==
    <<"U", "N", "I", "T", "\n", "F", "L", "A", "S", "H", " ", "U", "I", "D",
      "=", "X", ",", " ", "F", "E", "E", "D", " ", "X", "\n">>

\* a unit operation whose name is the KELVIN SIGN
KelvinDocument ==
    <<"U", "N", "I", "T", "\n", "P", "U", "M", "P", " ", "U", "I", "D", "=",
      "KELVIN", "\n">>

Documents ==
    {ComponentDocument, FlashDocument, UnitFlashDocument, ProductListDocument,
     SharedNameDocument, KelvinDocument}

\* tokenize() is called once on the new Lexer
PipeTokenize ==
    /\ lcalls = 0
    /\ TokenizeBegin

\* a Parser whose token cursor is shared between the Parser objects
Mut_PipeParser ==
    /\ lpc = "done"
    /\ ppc = "off"
    /\ parser' = [NewParser(lexer.tokens)
                   EXCEPT !.position = parser.position]
    /\ ppc' = "new"
    /\ UNCHANGED <<frame, program, previous,
                   result, lexVars, tableVars, serverVars>>

\* new Parser(tokens), on the tokens tokenize() returned
PipeParser ==
    /\ lpc = "done"
    /\ ppc = "off"
    /\ parser' = NewParser(lexer.tokens)
    /\ ppc' = "new"
    /\ UNCHANGED <<frame, program, previous,
                   result, lexVars, tableVars, serverVars>>

\* build(ast), on the tree parse() returned
PipeBuild ==
    /\ ppc = "done"
    /\ bpc = "idle"
    /\ BuildBegin(program[1], <<>>)
    /\ UNCHANGED <<lexVars, parseVars, serverVars>>

\* the same text is run again: new Lexer(code) replaces the Lexer, and the
\* new Parser follows in PipeParser; the old Parser object stays as it was
PipeAgain ==
    /\ ppc = "done"
    /\ previous = <<>>
    /\ previous' = program
    /\ lexer' = NewLexer(lexer.input)
    /\ lpc' = "idle"
    /\ lcalls' = 0
    /\ spans' = <<>>
    /\ ppc' = "off"
    /\ frame' = NoFrame
    /\ program' = <<>>
    /\ UNCHANGED <<parser, result, tableVars, serverVars>>

NextPipe ==
    \/ PipeTokenize \/ ScanTokenStep \/ TokenizeEnd
    \/ PipeParser \/ NextParse
    \/ PipeBuild \/ BuildStep \/ BuildEnd
    \/ PipeAgain

(***************************************************************************)
(* The server: the handlers of the document events.  A handler runs to its *)
(* end before the next event is taken.  Whether the try block of           *)
(* parseDocument() and validateDocument() throws is an outcome of the      *)
(* event: threw.                                                           *)
(***************************************************************************)

\* the uris of the documents the editor works on
Uris == {"a", "b"}

\* new Parser(new Lexer(text).tokenize()).parse(): [hang, node]
parseText(text) == parse(tokenize(NewLexer(text)).tokens)

\* parseDocument(document): documentASTs afterwards
parseDocument(asts, uri, text, threw) ==
    IF threw THEN asts ELSE [asts EXCEPT ![uri] = parseText(text).node]

\* validateDocument(document): documentASTs afterwards
validateDocument(asts, uri, text, threw) ==
    IF threw THEN asts ELSE [asts EXCEPT ![uri] = parseText(text).node]

\* the texts the editor sends
ServerTexts ==
    {FlashDocument, UnitFlashDocument, SharedNameDocument, KelvinDocument}

\* a tree stored for the uri stays where it is
Mut_onDidChangeContent(asts, uri, text, threw) ==
    IF asts[uri] # <<>> THEN asts
    ELSE validateDocument(parseDocument(asts, uri, text, threw),
                          uri, text, threw)

\* documents.onDidOpen(event => ...): documentASTs afterwards
onDidOpen(asts, uri, text, threw) ==
    validateDocument(parseDocument(asts, uri, text, threw), uri, text, threw)

\* documents.onDidChangeContent(change => ...): documentASTs afterwards
onDidChangeContent(asts, uri, text, threw) ==
    validateDocument(parseDocument(asts, uri, text, threw), uri, text, threw)

\* an event with the document's text: the handler does not return when the
\* parser does not, and leaves documentASTs as `asts` when it returns
HandleContent(uri, text, threw, asts) ==
    /\ spc = "idle"
    /\ documents' = [documents EXCEPT ![uri] = <<text>>]
    /\ IF ~threw /\ parseText(text).hang
       THEN /\ spc' = "hung"
            /\ outcome' = [outcome EXCEPT ![uri] = "hung"]
            /\ UNCHANGED documentASTs
       ELSE /\ documentASTs' = asts
            /\ outcome' = [outcome EXCEPT
                              ![uri] = IF threw THEN "threw" ELSE "parsed"]
            /\ UNCHANGED spc
    /\ UNCHANGED <<lexVars, parseVars, tableVars>>

DidOpen ==
    \E uri \in Uris, text \in ServerTexts, threw \in BOOLEAN :
        /\ documents[uri] = <<>>
        /\ HandleContent(uri, text, threw,
                         onDidOpen(documentASTs, uri, text, threw))

DidChangeContent ==
    \E uri \in Uris, text \in ServerTexts, threw \in BOOLEAN :
        /\ documents[uri] # <<>>
        /\ HandleContent(uri, text, threw,
                         onDidChangeContent(documentASTs, uri, text, threw))

\* a close handler that leaves the Map as it is
Mut_DidClose ==
    \E uri \in Uris :
        /\ spc = "idle"
        /\ documents[uri] # <<>>
        /\ documents' = [documents EXCEPT ![uri] = <<>>]
        /\ outcome' = [outcome EXCEPT ![uri] = "closed"]
        /\ UNCHANGED <<documentASTs, spc, lexVars, parseVars, tableVars>>

DidClose ==
    \E uri \in Uris :
        /\ spc = "idle"
        /\ documents[uri] # <<>>
        /\ documents' = [documents EXCEPT ![uri] = <<>>]
        /\ documentASTs' = [documentASTs EXCEPT ![uri] = <<>>]
        /\ outcome' = [outcome EXCEPT ![uri] = "closed"]
        /\ UNCHANGED <<spc, lexVars, parseVars, tableVars>>

NextServer == DidOpen \/ DidChangeContent \/ DidClose

(***************************************************************************)
(* Token sequences given to the parser: what a text of these tokens, each  *)
(* followed by one space, tokenizes to.                                    *)
(***************************************************************************)

TokenPool ==
    {[type |-> "UNIT_OPERATIONS", value |-> <<"U", "N", "I", "T">>],
     [type |-> "FLASH", value |-> <<"F", "L", "A", "S", "H">>],
     [type |-> "UID", value |-> <<"U", "I", "D">>],
     [type |-> "EQUALS", value |-> <<"=">>],
     [type |-> "IDENTIFIER", value |-> <<"S", "1">>],
     [type |-> "FEED", value |-> <<"F", "E", "E", "D">>],
     [type |-> "PROD", value |-> <<"P", "R", "O", "D">>],
     [type |-> "COMMA", value |-> <<",">>],
     [type |-> "NUMBER", value |-> <<"-", "1">>],
     [type |-> "NEWLINE", value |-> <<"\n">>]}

RECURSIVE Layout(_, _, _)
\* the tokens of the templates from the given line and column on, then EOF
Layout(templates, line, column) ==
    IF templates = <<>>
    THEN <<[type |-> "EOF", value |-> <<>>, line |-> line, column |-> column,
            length |-> 0]>>
    ELSE LET t == Head(templates)
             token == [type |-> t.type, value |-> t.value, line |-> line,
                       column |-> column, length |-> Len(t.value)]
         IN  <<token>> \o
             (IF t.type = "NEWLINE" THEN Layout(Tail(templates), line + 1, 1)
              ELSE Layout(Tail(templates), line, column + Len(t.value) + 1))

\* the token sequences of at most max tokens before EOF
TokenSequences(max) ==
    {Layout(ts, 1, 1) : ts \in UNION {[1..n -> TokenPool] : n \in 0..max}}

\* the most tokens before EOF
MaxTokens == 4

\* the most tokens before EOF where parse() is followed to its return
MaxRunTokens == 3

(***************************************************************************)
(* Token sequences given to the private methods: no UNIT token is among    *)
(* them.                                                                   *)
(***************************************************************************)

CallPool ==
    {[type |-> "IDENTIFIER", value |-> <<"s", "1">>],
     [type |-> "NUMBER", value |-> <<"2">>],
     [type |-> "STRING", value |-> <<"\"", "a", "\"">>],
     [type |-> "EQUALS", value |-> <<"=">>],
     [type |-> "COMMA", value |-> <<",">>],
     [type |-> "SLASH", value |-> <<"/">>],
     [type |-> "CONTINUATION", value |-> <<"&">>],
     [type |-> "NEWLINE", value |-> <<"\n">>],
     [type |-> "TEMP", value |-> <<"t", "e", "m", "p">>],
     [type |-> "TEMPERATURE",
      value |-> <<"T", "E", "M", "P", "E", "R", "A", "T", "U", "R", "E">>],
     [type |-> "LIBID", value |-> <<"L", "I", "B", "I", "D">>],
     [type |-> "COMP", value |-> <<"C", "O", "M", "P">>],
     [type |-> "METHOD", value |-> <<"M", "E", "T", "H", "O", "D">>]}

\* the most tokens before EOF of the sequences a private method is called on
MaxCallTokens == 3

CallSequences(max) ==
    {Layout(ts, 1, 1) : ts \in UNION {[1..n -> CallPool] : n \in 0..max}}

\* statements that a continuation marker carries over to a second line, with
\* and without a comma before the marker, one pair for each statement parser
ContinuationStatements ==
    LET id == [type |-> "IDENTIFIER", value |-> <<"S", "1">>]
        num == [type |-> "NUMBER", value |-> <<"2">>]
        eq == [type |-> "EQUALS", value |-> <<"=">>]
        comma == [type |-> "COMMA", value |-> <<",">>]
        cont == [type |-> "CONTINUATION", value |-> <<"&">>]
        nl == [type |-> "NEWLINE", value |-> <<"\n">>]
        temp == [type |-> "TEMP", value |-> <<"T", "E", "M", "P">>]
        Heads ==
            {<<[type |-> "LIBID", value |-> <<"L", "I", "B", "I", "D">>], num>>,
             <<[type |-> "COMP", value |-> <<"C", "O", "M", "P">>], eq, id,
               comma, temp, eq, num>>,
             <<[type |-> "METHOD", value |-> <<"M", "E", "T", "H", "O", "D">>],
               temp, eq, num>>,
             <<[type |-> "FLASH", value |-> <<"F", "L", "A", "S", "H">>],
               [type |-> "UID", value |-> <<"U", "I", "D">>], eq, id>>,
             <<[type |-> "IDENTIFIER", value |-> <<"P", "R", "I", "N", "T">>],
               temp, eq, num>>}
        Second(head) ==
            IF head[1].type = "LIBID" THEN <<num>>
            ELSE IF head[1].type = "FLASH"
            THEN <<[type |-> "FEED", value |-> <<"F", "E", "E", "D">>], id>>
            ELSE <<temp, eq, num>>
    IN  {head \o marker \o Second(head) \o <<nl>> :
            head \in Heads, marker \in {<<cont, nl>>, <<comma, cont, nl>>}}

\* unit operations whose feed or product is followed by a comma and a tag
TaggedStatements ==
    LET flash == [type |-> "FLASH", value |-> <<"F", "L", "A", "S", "H">>]
        id == [type |-> "IDENTIFIER", value |-> <<"s", "1">>]
        tag == [type |-> "IDENTIFIER", value |-> <<"v">>]
        comma == [type |-> "COMMA", value |-> <<",">>]
        nl == [type |-> "NEWLINE", value |-> <<"\n">>]
    IN  {<<flash, role, id, comma, tag, nl>> :
            role \in {[type |-> "FEED", value |-> <<"F", "E", "E", "D">>],
                      [type |-> "PROD", value |-> <<"P", "R", "O", "D">>]}}

\* stream statements `COMP = S1, n1 = v1, n2 = v2` of one or two pairs, the
\* names identifiers or the keyword TEMP, the values scalars
PropertyStatements ==
    LET comp == [type |-> "COMP", value |-> <<"C", "O", "M", "P">>]
        id == [type |-> "IDENTIFIER", value |-> <<"S", "1">>]
        eq == [type |-> "EQUALS", value |-> <<"=">>]
        comma == [type |-> "COMMA", value |-> <<",">>]
        nl == [type |-> "NEWLINE", value |-> <<"\n">>]
        Names == {[type |-> "IDENTIFIER", value |-> <<"p">>],
                  [type |-> "TEMP", value |-> <<"T", "E", "M", "P">>]}
        Values == {[type |-> "NUMBER", value |-> <<"2">>],
                   [type |-> "IDENTIFIER", value |-> <<"x">>],
                   [type |-> "STRING", value |-> <<"\"", "a", "\"">>]}
        Pairs == {<<comma, n, eq, v>> : n \in Names, v \in Values}
    IN  {<<comp, eq, id>> \o first \o <<nl>> : first \in Pairs}
            \cup {<<comp, eq, id>> \o first \o second \o <<nl>> :
                     first \in Pairs, second \in Pairs}

\* the lines of documents with several sections: the headers UNIT,
\* COMPONENT DATA, STREAM DATA and THERMODYNAMIC DATA as the lexer gives
\* them, a unit operation, a component statement and a title line
SectionLines ==
    LET data == [type |-> "IDENTIFIER", value |-> <<"D", "A", "T", "A">>]
        eq == [type |-> "EQUALS", value |-> <<"=">>]
        comma == [type |-> "COMMA", value |-> <<",">>]
    IN  {<<[type |-> "UNIT_OPERATIONS", value |-> <<"U", "N", "I", "T">>]>>,
         <<[type |-> "COMPONENT_DATA",
            value |-> <<"C", "O", "M", "P", "O", "N", "E", "N", "T">>], data>>,
         <<[type |-> "STREAM_DATA",
            value |-> <<"S", "T", "R", "E", "A", "M">>], data>>,
         <<[type |-> "THERMODYNAMIC_DATA",
            value |-> <<"T", "H", "E", "R", "M", "O", "D", "Y", "N", "A", "M",
                        "I", "C">>], data>>,
         <<[type |-> "FLASH", value |-> <<"F", "L", "A", "S", "H">>],
           [type |-> "UID", value |-> <<"U", "I", "D">>], eq,
           [type |-> "IDENTIFIER", value |-> <<"F", "1">>]>>,
         <<[type |-> "LIBID", value |-> <<"L", "I", "B", "I", "D">>],
           [type |-> "NUMBER", value |-> <<"1">>], comma,
           [type |-> "IDENTIFIER", value |-> <<"C", "1">>]>>,
         <<[type |-> "IDENTIFIER", value |-> <<"T", "I", "T", "L", "E">>],
           [type |-> "IDENTIFIER", value |-> <<"X">>]>>}

\* the most lines of such a document
MaxLines == 3

RECURSIVE JoinLines(_)
\* the tokens of the lines, a NEWLINE after each
JoinLines(lines) ==
    IF lines = <<>> THEN <<>>
    ELSE Head(lines) \o <<[type |-> "NEWLINE", value |-> <<"\n">>]>>
             \o JoinLines(Tail(lines))

SectionSequences(max) ==
    {Layout(JoinLines(lines), 1, 1) :
        lines \in UNION {[1..n -> SectionLines] : n \in 0..max}}

(***************************************************************************)
(* Specifications                                                          *)
(***************************************************************************)

\* the characters the bounded inputs are made of; a dot that no digit
\* surrounds is a character scanToken does not recognize
LexAlphabet == {" ", "\n", "$", "-", "1", ".", "e", "P", "r", "\""}

\* the longest input text of the lexer specification
MaxInputLen == 4

LexInputs == UNION {[1..n -> LexAlphabet] : n \in 0..MaxInputLen}

NoLexer ==
    /\ lexer = NewLexer(<<>>)
    /\ lpc = "off"
    /\ lcalls = 0
    /\ spans = <<>>

NoParser ==
    /\ parser = NewParser(<<>>)
    /\ ppc = "off"
    /\ frame = NoFrame
    /\ program = <<>>
    /\ previous = <<>>
    /\ result = <<>>

NoBuild ==
    /\ table = NewSymbolTable
    /\ bpc = "idle"
    /\ todo = <<>>
    /\ tree = ProgramOf(<<>>)
    /\ dirty = FALSE

\* the server after start: no document is open, documentASTs is a new Map
NoServer ==
    /\ documents = [uri \in Uris |-> <<>>]
    /\ documentASTs = [uri \in Uris |-> <<>>]
    /\ spc = "idle"
    /\ outcome = [uri \in Uris |-> "none"]

\* a Lexer on each bounded text
InitLex ==
    /\ lexer \in {NewLexer(text) : text \in LexInputs}
    /\ lpc = "idle"
    /\ lcalls = 0
    /\ spans = <<>>
    /\ NoParser
    /\ NoBuild
    /\ NoServer

SpecLex == InitLex /\ [][NextLex]_vars

\* a Parser on each token sequence of at most max tokens before EOF
InitParser(max) ==
    /\ NoLexer
    /\ parser \in {NewParser(tokens) : tokens \in TokenSequences(max)}
    /\ ppc = "new"
    /\ frame = NoFrame
    /\ program = <<>>
    /\ previous = <<>>
    /\ result = <<>>
    /\ NoBuild
    /\ NoServer

InitParse == InitParser(MaxTokens)

SpecParse == InitParse /\ [][NextParse]_vars

InitParseRun == InitParser(MaxRunTokens)

\* parse() runs on one thread and nothing else does: its next step is taken
SpecParseRun == InitParseRun /\ [][NextParse]_vars /\ WF_vars(NextParse)

\* a new SymbolTable
Init ==
    /\ NoLexer
    /\ NoParser
    /\ NoBuild
    /\ NoServer

Spec == Init /\ [][NextTable]_vars

\* a Lexer on each document
InitPipe ==
    /\ lexer \in {NewLexer(code) : code \in Documents}
    /\ lpc = "idle"
    /\ lcalls = 0
    /\ spans = <<>>
    /\ NoParser
    /\ NoBuild
    /\ NoServer

SpecPipe == InitPipe /\ [][NextPipe]_vars

\* a Parser on each bounded token sequence, no method of it called yet
InitCall ==
    /\ NoLexer
    /\ parser \in {NewParser(tokens) :
                 tokens \in
                    CallSequences(MaxCallTokens) \union
                    {Layout(st, 1, 1) :
                        st \in ContinuationStatements \union TaggedStatements
                                  \union PropertyStatements}}
    /\ ppc = "new"
    /\ frame = NoFrame
    /\ program = <<>>
    /\ previous = <<>>
    /\ result = <<>>
    /\ NoBuild
    /\ NoServer

SpecCall == InitCall /\ [][NextCall]_vars

\* a Parser on each document of at most MaxLines lines
InitSections ==
    /\ NoLexer
    /\ parser \in {NewParser(tokens) : tokens \in SectionSequences(MaxLines)}
    /\ ppc = "new"
    /\ frame = NoFrame
    /\ program = <<>>
    /\ previous = <<>>
    /\ result = <<>>
    /\ NoBuild
    /\ NoServer

SpecSections == InitSections /\ [][NextParse]_vars

\* the server after start
InitServer ==
    /\ NoLexer
    /\ NoParser
    /\ NoBuild
    /\ NoServer

SpecServer == InitServer /\ [][NextServer]_vars


(***************************************************************************)
(* Lexer claims                                                            *)
(***************************************************************************)

EofCount(toks) == Cardinality({i \in DOMAIN toks : toks[i].type = "EOF"})

\* the value tokenize() returns, once it has returned
Returned == lexer.tokens

\* C2: tokenize() terminates for every input (empty, all-whitespace, only
\* unrecognized characters, any mix): every iteration of its loop consumes
\* at least one character and never moves past the end of the input, so the
\* loop runs at most input-length times; the returned sequence holds exactly
\* one EOF token, which is its last element, and for the empty string the
\* result is exactly [EOF].
C2_TokenizeTotal ==
    [][ /\ (lpc = "scan" /\ lpc' = "scan") =>
              /\ lexer'.position > lexer.position
              /\ lexer'.position <= Len(lexer.input)
        /\ lpc' = "done" =>
              /\ Len(lexer'.tokens) >= 1
              /\ lexer'.tokens[Len(lexer'.tokens)].type = "EOF"
              /\ EofCount(lexer'.tokens) = 1
              /\ (lexer.input = <<>> => lexer'.tokens = <<[type |-> "EOF",
                      value |-> <<>>, line |-> 1, column |-> 1, length |-> 0]>>)
      ]_vars

\* tokenize() has returned on an input of unrecognized characters and
\* whitespace only
C2_Witness ==
    /\ lpc = "done"
    /\ lcalls = 1
    /\ lexer.input = <<".", " ", ".">>
    /\ Len(Returned) = 3
    /\ Returned[1].type = "UNKNOWN"
    /\ Returned[2].type = "UNKNOWN"

\* offset (0-based) of the first character of line n of the input
LineStart(input, n) ==
    CHOOSE p \in 0..Len(input) :
        /\ Cardinality({j \in 1..p : input[j] = "\n"}) = n - 1
        /\ (p = 0 \/ input[p] = "\n")

\* the source span a token reports: [offset, offset + length)
TokenOffset(input, tok) == LineStart(input, tok.line) + tok.column - 1

TokenSpan(input, tok) ==
    {i \in 0..(Len(input) - 1) :
        TokenOffset(input, tok) <= i /\ i < TokenOffset(input, tok) + tok.length}

RECURSIVE SumLengths(_)
SumLengths(toks) ==
    IF toks = <<>> THEN 0 ELSE Head(toks).length + SumLengths(Tail(toks))

\* offsets of the characters scanToken() dropped without emitting a token
Discarded == {spans[i].from : i \in {j \in DOMAIN spans : spans[j].emitted = 0}}

\* the scanToken() calls that emitted a token, in order
RECURSIVE Emitting(_)
Emitting(sp) ==
    IF sp = <<>> THEN <<>>
    ELSE IF Head(sp).emitted = 1 THEN <<Head(sp)>> \o Emitting(Tail(sp))
    ELSE Emitting(Tail(sp))

\* C9: after tokenize() on a fresh Lexer every character of the input lies in
\* exactly one token's span or is a discarded space, tab or carriage return;
\* token spans do not overlap; each token's length is the number of
\* characters its scan consumed; the token lengths plus the number of
\* discarded characters add up to the input length.
C9_TokenCoverage ==
    (lpc = "done" /\ lcalls = 1) =>
        LET input == lexer.input
            toks  == Returned
            em    == Emitting(spans)
        IN  /\ \A i \in 0..(Len(input) - 1) :
                LET covering == {k \in DOMAIN toks : i \in TokenSpan(input, toks[k])}
                IN  \/ Cardinality(covering) = 1 /\ i \notin Discarded
                    \/ /\ covering = {}
                       /\ i \in Discarded
                       /\ input[i + 1] \in {" ", "\t", "\r"}
            /\ Len(em) = Len(toks) - 1
            /\ \A k \in DOMAIN em :
                /\ toks[k].length = em[k].to - em[k].from
                /\ TokenOffset(input, toks[k]) = em[k].from
            /\ SumLengths(toks) + Cardinality(Discarded) = Len(input)

\* a finished scan that discarded whitespace and emitted a multi-character
\* token (a string with a blank inside)
C9_Witness ==
    /\ lpc = "done"
    /\ lcalls = 1
    /\ lexer.input = <<" ", "\"", " ", "\"">>
    /\ Len(Returned) = 2
    /\ Returned[1].length = 3


\* C16: position tracking: every token's line is 1 plus the number of
\* newline characters before its first character, and its column is 1 plus
\* the number of characters between the preceding newline (or the input
\* start) and its first character; so line >= 1 and column >= 1 for every
\* token, NEWLINE and EOF included.
C16_PositionTracking ==
    lpc = "done" =>
        LET input == lexer.input
            toks == Returned
            em == Emitting(spans)
            Newlines(offset) == {j \in 1..offset : input[j] = "\n"}
            LastNewline(offset) ==
                IF Newlines(offset) = {} THEN 0
                ELSE CHOOSE j \in Newlines(offset) :
                         \A k \in Newlines(offset) : k <= j
            At(tok, offset) ==
                /\ tok.line = 1 + Cardinality(Newlines(offset))
                /\ tok.column = 1 + (offset - LastNewline(offset))
                /\ tok.line >= 1
                /\ tok.column >= 1
        IN  /\ Len(toks) = Len(em) + 1
            /\ \A k \in DOMAIN em : At(toks[k], em[k].from)
            /\ At(toks[Len(toks)], Len(input))

\* tokenize() has returned on a text whose second line holds a word after a
\* blank: NEWLINE at 1:1, the word at 2:2, EOF at 2:4
C16_Witness ==
    /\ lpc = "done"
    /\ lcalls = 1
    /\ lexer.input = <<"\n", " ", "P", "r">>
    /\ Len(Returned) = 3
    /\ Returned[2].line = 2
    /\ Returned[2].column = 2
    /\ Returned[3].column = 4

\* v has the form: optional minus, digits, optional dot and digits,
\* optional E or e with optional sign and digits
IsNumberText(v) ==
    LET Exponential(k) ==
            IF k <= Len(v) /\ v[k] \in {"E", "e"}
            THEN LET Run(m) == /\ DigitRun(v, m) >= 1
                               /\ m + DigitRun(v, m) = Len(v) + 1
                 IN  Run(IF k + 1 <= Len(v) /\ v[k + 1] \in {"+", "-"}
                         THEN k + 2 ELSE k + 1)
            ELSE k = Len(v) + 1
        Fraction(j) ==
            IF j <= Len(v) /\ v[j] = "."
            THEN /\ DigitRun(v, j + 1) >= 1
                 /\ Exponential(j + 1 + DigitRun(v, j + 1))
            ELSE Exponential(j)
        Whole(i) == DigitRun(v, i) >= 1 /\ Fraction(i + DigitRun(v, i))
    IN  Whole(IF v # <<>> /\ v[1] = "-" THEN 2 ELSE 1)

\* C17: every NUMBER token's text is exactly the consumed source substring
\* and has the form: optional leading minus, one or more digits, optional
\* fractional part (dot and one or more digits), optional exponent (E or e,
\* optional sign, one or more digits); a '-' directly followed by a digit
\* starts a number, any other '-' that starts a token is a MINUS token.
C17_NumberText ==
    (lpc = "done" /\ lcalls = 1) =>
        LET input == lexer.input
            toks == Returned
            em == Emitting(spans)
        IN  \A k \in DOMAIN em :
                /\ toks[k].type = "NUMBER" =>
                      /\ toks[k].value =
                             SubSeq(input, em[k].from + 1, em[k].to)
                      /\ IsNumberText(toks[k].value)
                /\ input[em[k].from + 1] = "-" =>
                      toks[k].type =
                          (IF /\ em[k].from + 2 <= Len(input)
                              /\ IsDigit(input[em[k].from + 2])
                           THEN "NUMBER" ELSE "MINUS")

RECURSIVE CaseVariants(_)
\* the spellings of w that differ from it in letter case only
CaseVariants(w) ==
    IF w = <<>> THEN {<<>>}
    ELSE {<<c>> \o v : c \in {UpperChar(w[1]), LowerChar(w[1])},
                       v \in CaseVariants(Tail(w))}

\* C18: keyword matching is case-insensitive and text-preserving: for every
\* letter-initial run w of letters, digits and underscores that is scanned,
\* the token's kind is the keyword table's entry for uppercase(w) if there
\* is one and IDENTIFIER otherwise, and the token text is w as written;
\* changing only the letter case of the word never changes the kind of the
\* token produced.
C18_KeywordMatching ==
    (lpc = "done" /\ lcalls = 1) =>
        LET input == lexer.input
            toks == Returned
            em == Emitting(spans)
            WordChar(c) == IsAlphaNumeric(c) \/ c = "_"
            Kind(w) == IF \E kw \in DOMAIN KEYWORDS : kw = toUpperCase(w)
                       THEN KEYWORDS[toUpperCase(w)] ELSE "IDENTIFIER"
            Word(tok, w, next) ==
                /\ \A i \in DOMAIN w : WordChar(w[i])
                /\ next > Len(input) \/ ~WordChar(input[next])
                /\ tok.value = w
                /\ tok.type = Kind(w)
                /\ \A v \in CaseVariants(w) :
                       scanToken(NewLexer(v)).tokens[1].type = tok.type
        IN  \A k \in DOMAIN em :
                IsAlpha(input[em[k].from + 1]) =>
                    Word(toks[k], SubSeq(input, em[k].from + 1, em[k].to),
                         em[k].to + 1)

\* tokenize() has returned on the word Pr: the keyword kind PR, the text Pr
C18_Witness ==
    /\ lpc = "done"
    /\ lcalls = 1
    /\ lexer.input = <<"P", "r">>
    /\ Returned[1].type = "PR"
    /\ Returned[1].value = <<"P", "r">>

\* C20: each tokenize call gets a fresh cursor: calling tokenize() twice on
\* the same Lexer object returns the same token sequence both times (same
\* kinds, texts, lines and columns), the one a new Lexer on the text returns.
C20_FreshCursor ==
    lpc = "done" => Returned = tokenize(NewLexer(lexer.input)).tokens

(***************************************************************************)
(* Parser claims                                                           *)
(***************************************************************************)

\* C1: parse() terminates on every token sequence that ends in EOF and
\* returns a Program node, also for unknown keywords, stray punctuation,
\* statements cut short and text outside any section: from every such
\* sequence the parser comes to return its Program.
C1_ParseTerminates ==
    <>(ppc = "done" /\ program # <<>> /\ program[1].type = "Program")

\* C23: every iteration of the statement loop of a unit-operations section
\* advances the cursor by at least one token: the call of
\* parseUnitOperation() that opens the iteration leaves the cursor further
\* on, whether it takes a unit-operation keyword or returns null, and the
\* rest of the iteration never moves the cursor back.
C23_UnitSectionProgress ==
    [][/\ ppc = "unitop" => parser'.position > parser.position
       /\ ppc \in {"unitline", "unitbody"} =>
              parser'.position >= parser.position]_vars

\* C24: every iteration of the loop of parseUnitOperation() that reads the
\* rest of the statement line advances the cursor by at least one token,
\* whatever the kind of the current token is.
C24_UnitLineProgress ==
    [][ppc = "unitbody" => parser'.position > parser.position]_vars

\* the parser with its tokens cut after the token that follows position
\* pos, the EOF token put in place of the rest
CutAfter(p, pos) ==
    IF pos + 2 < Len(p.tokens)
    THEN [p EXCEPT !.tokens = SubSeq(p.tokens, 1, pos + 2)
                                  \o <<p.tokens[Len(p.tokens)]>>]
    ELSE p

\* the place in parse() and the cursor after the step that parse() takes at
\* place pc with parser p and the locals fr
StepOf(p, pc, fr) ==
    LET To(q, place) == [position |-> q.position, pc |-> place] IN
    CASE pc = "new" -> To(skipWhitespaceAndComments(p), "top")
      [] pc = "top" ->
            IF isAtEnd(p) THEN To(p, "done")
            ELSE IF SectionKind(p) = "UNIT_OPERATIONS"
            THEN To(consumeNewlines(advance(p)), "unitsec")
            ELSE To(skipWhitespaceAndComments(advanceLine(p)), "top")
      [] pc = "unitsec" ->
            IF ~isAtEnd(p) /\ ~isNextSection(p) THEN To(p, "unitop")
            ELSE To(skipWhitespaceAndComments(p), "top")
      [] pc = "unitop" ->
            IF isUnitOperationType(current(p).type)
            THEN To(advance(p), "unitline")
            ELSE To(skipWhitespaceAndComments(p), "unitsec")
      [] pc = "unitline" ->
            IF ~isAtEnd(p) /\ ~check(p, "NEWLINE") THEN To(p, "unitbody")
            ELSE To(skipWhitespaceAndComments(consumeNewlines(p)), "unitsec")
      [] pc = "unitbody" -> To(UnitLineIteration(p, fr.unit).p, "unitline")
      [] OTHER -> To(p, pc)

\* C33: during parse() the cursor never decreases and never moves past the
\* index of the EOF token, and what a step does is decided by the tokens up
\* to the one after the token it stops at: the same step on the tokens cut
\* off behind that token ends at the same place with the same cursor.
C33_CursorDiscipline ==
    [][/\ parser'.position >= parser.position
       /\ parser'.position <= Len(parser'.tokens) - 1
       /\ parser'.tokens = parser.tokens
       /\ StepOf(CutAfter(parser, parser'.position), ppc, frame)
              = [position |-> parser'.position, pc |-> ppc']]_vars

\* parse() has returned with the cursor on the EOF token, after
\* parseIdentifier() was called for a uid with the cursor on the EOF token
C33_Witness ==
    /\ ppc = "done"
    /\ parser.position = Len(parser.tokens) - 1
    /\ program[1].sections # <<>>
    /\ program[1].sections[1].statements # <<>>
    /\ program[1].sections[1].statements[1].uid # <<>>
    /\ program[1].sections[1].statements[1].uid[1].name = <<>>

(***************************************************************************)
(* Symbol table claims                                                     *)
(***************************************************************************)

\* the statements of the given node type in the tree, in document order
StatementsOf(ast, type) ==
    SelectSeq(Flatten([i \in DOMAIN ast.sections |-> ast.sections[i].statements]),
              LAMBDA stmt : stmt.type = type)

\* the number of entries of the reference list with the given role
RoleCount(symbol, role) ==
    Cardinality({i \in DOMAIN symbol.references :
                    symbol.references[i].context = role})

\* C3: undefined-stream detection: for a parsed tree in which a unit
\* operation lists stream X as a feed, after build getUndefinedSymbols()
\* contains the symbol X when no stream-property statement names X anywhere
\* in the document, and does not contain X when one does (names compared
\* case-insensitively).
C3_UndefinedStreams ==
    bpc = "built" =>
        LET units == StatementsOf(tree, "UnitOperation")
            streams == StatementsOf(tree, "StreamData")
            undefined == getUndefinedSymbols(table)
            Named(X) == \E i \in DOMAIN streams :
                toUpperCase(streams[i].streamName.name) = toUpperCase(X)
            Reported(X) == \E i \in DOMAIN undefined :
                undefined[i].name = toUpperCase(X)
        IN  \A i \in DOMAIN units : \A j \in DOMAIN units[i].feedStreams :
                Reported(units[i].feedStreams[j].streamName.name)
                    <=> ~Named(units[i].feedStreams[j].streamName.name)

\* C4: for the document whose unit-operation statement is FLASH UID=F-100
\* followed by FEED and PROD lines, tokenize, parse and build yield exactly
\* one symbol of kind unit, with key F-100 and operation type FLASH.
C4_FlashUnit ==
    (bpc = "built" /\ lexer.input = FlashDocument) =>
        LET units == getSymbolsByKind(table, "unit") IN
        /\ Len(units) = 1
        /\ units[1].name = <<"F", "-", "1", "0", "0">>
        /\ units[1].metadata = <<[unitType |-> <<"F", "L", "A", "S", "H">>]>>

\* C5: for the unit operation written as FEED FEED and PROD VAPOR, LIQUID
\* with no stream-property statements, the table has stream symbols FEED
\* (one feed-role reference), VAPOR and LIQUID (one product-role reference
\* each), none with a definition-role reference, all three returned by
\* getUndefinedSymbols(); and every identifier of a comma-separated PROD
\* list (V1 and L1 of PROD V1, L1) becomes a product-role stream reference.
C5_StreamReferences ==
    LET undefined == getUndefinedSymbols(table)
        Stream(name, role) ==
            /\ getSymbol(table, name) # <<>>
            /\ getSymbol(table, name)[1].kind = "stream"
            /\ RoleCount(getSymbol(table, name)[1], role) = 1
            /\ Len(getSymbol(table, name)[1].references) = 1
            /\ \E i \in DOMAIN undefined : undefined[i].name = name
    IN  /\ (bpc = "built" /\ lexer.input = FlashDocument) =>
              /\ Stream(<<"F", "E", "E", "D">>, "feed")
              /\ Stream(<<"V", "A", "P", "O", "R">>, "product")
              /\ Stream(<<"L", "I", "Q", "U", "I", "D">>, "product")
              /\ Len(getSymbolsByKind(table, "stream")) = 3
        /\ (bpc = "built" /\ lexer.input = ProductListDocument) =>
              /\ Stream(<<"V", "1">>, "product")
              /\ Stream(<<"L", "1">>, "product")

\* C6: for the input COMPONENT DATA / LIBID 1, C1/2, C2/3 the pipeline
\* yields exactly 2 component symbols, keyed C1 and C2, with library-id 2
\* for C1 and 3 for C2.
C6_Components ==
    (bpc = "built" /\ lexer.input = ComponentDocument) =>
        LET components == getSymbolsByKind(table, "component") IN
        /\ Len(components) = 2
        /\ components[1].name = <<"C", "1">>
        /\ components[1].metadata[1].libid = <<parseFloat(<<"2">>)>>
        /\ components[2].name = <<"C", "2">>
        /\ components[2].metadata[1].libid = <<parseFloat(<<"3">>)>>

\* C7: reference counting: after build, a stream that appears as a feed in
\* two unit operations and as a product in one has a reference list with
\* exactly 2 feed-role entries and exactly 1 product-role entry, plus
\* exactly 1 definition-role entry if one stream-property statement names
\* it, and none if no such statement does.
C7_ReferenceCounting ==
    bpc = "built" =>
        LET units == StatementsOf(tree, "UnitOperation")
            streams == StatementsOf(tree, "StreamData")
            Listing(refs, X) == \E j \in DOMAIN refs :
                toUpperCase(refs[j].streamName.name) = X
            Feeds(X) == Cardinality({i \in DOMAIN units :
                            Listing(units[i].feedStreams, X)})
            Products(X) == Cardinality({i \in DOMAIN units :
                               Listing(units[i].productStreams, X)})
            Definitions(X) == Cardinality({i \in DOMAIN streams :
                                  toUpperCase(streams[i].streamName.name) = X})
        IN  \A X \in {<<"K">>, <<"S">>} :
                (Feeds(X) = 2 /\ Products(X) = 1 /\ Definitions(X) <= 1) =>
                    /\ getSymbol(table, X) # <<>>
                    /\ RoleCount(getSymbol(table, X)[1], "feed") = 2
                    /\ RoleCount(getSymbol(table, X)[1], "product") = 1
                    /\ RoleCount(getSymbol(table, X)[1], "definition")
                           = Definitions(X)

\* C8: case-insensitive lookup: in every table state and for every name N,
\* getSymbol(N), getSymbol(uppercase N) and getSymbol(lowercase N) return
\* the same result, and isDefined agrees across the three spellings.
C8_CaseInsensitiveLookup ==
    \A N \in {<<"k">>, <<"K">>, <<"s">>, <<"S">>, <<"c", "1">>, <<"C", "1">>,
              <<"x">>, <<Kelvin>>} :
        /\ getSymbol(table, N) = getSymbol(table, toUpperCase(N))
        /\ getSymbol(table, N) = getSymbol(table, toLowerCase(N))
        /\ isDefined(table, N) = isDefined(table, toUpperCase(N))
        /\ isDefined(table, N) = isDefined(table, toLowerCase(N))

\* C10: rebuild isolation: the table contents after build(A) followed by
\* build(B) on one SymbolTable equal the contents of a fresh SymbolTable
\* after build(B) alone; no symbol, reference or metadata from A survives.
C10_RebuildIsolation ==
    (bpc = "built" /\ dirty) =>
        \E templates \in RebuildTemplates :
            /\ tree = ProgramOf(templates)
            /\ table = FreshBuild(ProgramOf(templates), TextOf(templates))

\* build(B) has returned on a table that held the symbols of build(A): B is
\* the stream statement of S, whose line gives it its properties
C10_Witness ==
    /\ bpc = "built"
    /\ dirty
    /\ Len(table.symbols) = 1
    /\ table.symbols[1].name = <<"S">>
    /\ table.symbols[1].kind = "stream"
    /\ table.symbols[1].metadata # <<NoProperties>>

\* C11: first definition wins for position: after build, a stream symbol
\* with at least one definition-role reference reports as its definition
\* line the line of the first stream-property statement naming it, also when
\* feed or product references to the name occur earlier in the document; the
\* earlier references and any later definitions are entries of that one
\* symbol.
C11_FirstDefinitionWins ==
    bpc = "built" =>
        LET streams == StatementsOf(tree, "StreamData")
            Naming(name) == {i \in DOMAIN streams :
                toUpperCase(streams[i].streamName.name) = name}
            First(lines) == CHOOSE l \in lines : \A k \in lines : l <= k
        IN  \A n \in DOMAIN table.symbols :
                (/\ table.symbols[n].kind = "stream"
                 /\ RoleCount(table.symbols[n], "definition") >= 1) =>
                    /\ Naming(table.symbols[n].name) # {}
                    /\ table.symbols[n].definedAt.line =
                           First({streams[i].startLine :
                                     i \in Naming(table.symbols[n].name)})
                    /\ RoleCount(table.symbols[n], "definition") =
                           Cardinality(Naming(table.symbols[n].name))
                    /\ \A m \in DOMAIN table.symbols :
                           table.symbols[m].name = table.symbols[n].name
                               => m = n

\* the component entries of the tree, in document order
ComponentEntries(ast) ==
    LET statements == StatementsOf(ast, "ComponentData")
    IN  Flatten([i \in DOMAIN statements |-> statements[i].components])

\* every component symbol of T holds the line, library-id and declared name
\* of the first entry of the tree with its case-folded identifier
KeepsFirstEntry(T, ast) ==
    LET entries == ComponentEntries(ast)
        Same(name) == {i \in DOMAIN entries :
                          toUpperCase(entries[i].identifier) = name}
        First(is) == entries[CHOOSE i \in is : \A k \in is : i <= k]
        Holds(symbol, first) ==
            /\ symbol.definedAt.line = first.startLine
            /\ symbol.metadata[1].componentName = first.identifier
            /\ symbol.metadata[1].libid =
                   (IF first.libid = <<>> THEN <<>>
                    ELSE <<first.libid[1].value>>)
    IN  \A n \in DOMAIN T.symbols :
            T.symbols[n].kind = "component" =>
                /\ Same(T.symbols[n].name) # {}
                /\ Holds(T.symbols[n], First(Same(T.symbols[n].name)))

\* C12: component duplicates: when two component entries have the same
\* case-folded identifier, the component symbol keeps the first entry's
\* line, library-id and declared name; registering the second entry changes
\* nothing in the table.
C12_ComponentDuplicates ==
    [][ /\ (/\ bpc = "build"
            /\ todo # <<>>
            /\ Head(todo).op = "addComponent"
            /\ isDefined(table, Head(todo).comp.identifier)) => table' = table
        /\ bpc' = "built" => KeepsFirstEntry(table', tree')
      ]_vars

\* build() has returned on the component entries k (library-id 2, line 1)
\* and K (library-id 3, line 2): one symbol K, of the first entry
C12_Witness ==
    /\ bpc = "built"
    /\ Len(ComponentEntries(tree)) = 2
    /\ ComponentEntries(tree)[1].identifier = <<"k">>
    /\ ComponentEntries(tree)[2].identifier = <<"K">>
    /\ Len(table.symbols) = 1
    /\ table.symbols[1].metadata[1].componentName = <<"k">>
    /\ table.symbols[1].metadata[1].libid = <<parseFloat(<<"2">>)>>
    /\ table.symbols[1].definedAt.line = 1

\* C13: unit registration: after build, for every unit-operation statement
\* with a unique-id U in a unit-operations section, getSymbol(U) is a symbol
\* of kind unit keyed by U that stores the statement's type tag (the tag of
\* the first such statement when several share U), whatever other names
\* (streams, components) the document uses.
C13_UnitRegistration ==
    bpc = "built" =>
        LET units == StatementsOf(tree, "UnitOperation")
            Sharing(U) == {i \in DOMAIN units :
                /\ units[i].uid # <<>>
                /\ toUpperCase(units[i].uid[1].name) = toUpperCase(U)}
            First(is) == units[CHOOSE i \in is : \A k \in is : i <= k]
            Registered(U) ==
                /\ getSymbol(table, U) # <<>>
                /\ getSymbol(table, U)[1].kind = "unit"
                /\ getSymbol(table, U)[1].key = toUpperCase(U)
                /\ getSymbol(table, U)[1].metadata =
                       <<[unitType |-> First(Sharing(U)).statementType]>>
        IN  \A i \in DOMAIN units :
                units[i].uid # <<>> => Registered(units[i].uid[1].name)

\* C14: getUndefinedSymbols() returns exactly the symbols of kind stream that
\* have at least one reference and no reference with role definition, each
\* once; it never returns a unit or a component symbol.
C14_UndefinedSymbols ==
    LET undefined == getUndefinedSymbols(table)
        Qualifying == {n \in DOMAIN table.symbols :
            /\ table.symbols[n].kind = "stream"
            /\ Len(table.symbols[n].references) >= 1
            /\ RoleCount(table.symbols[n], "definition") = 0}
    IN  /\ {undefined[i] : i \in DOMAIN undefined}
               = {table.symbols[n] : n \in Qualifying}
        /\ Len(undefined) = Cardinality(Qualifying)
        /\ \A i \in DOMAIN undefined :
               undefined[i].kind \notin {"unit", "component"}

\* a table with a component that a feed reference was attached to and a
\* stream that is only a feed: only the stream is returned
C14_Witness ==
    /\ bpc = "built"
    /\ Len(table.symbols) = 2
    /\ table.symbols[1].kind = "component"
    /\ RoleCount(table.symbols[1], "feed") = 1
    /\ RoleCount(table.symbols[1], "definition") = 0
    /\ table.symbols[2].kind = "stream"
    /\ RoleCount(table.symbols[2], "feed") = 1
    /\ getUndefinedSymbols(table) = <<table.symbols[2]>>

\* C15: after any build, every key of the symbol table is its own uppercase
\* form and equals the name field of the symbol stored under it.
C15_UppercaseKeys ==
    \A n \in DOMAIN table.symbols :
        /\ table.symbols[n].key = toUpperCase(table.symbols[n].key)
        /\ table.symbols[n].key = table.symbols[n].name

\* build() has returned on a tree whose only name is the lowercase feed s
C15_Witness ==
    /\ bpc = "built"
    /\ Len(StatementsOf(tree, "UnitOperation")) = 1
    /\ Len(StatementsOf(tree, "UnitOperation")[1].feedStreams) = 1
    /\ StatementsOf(tree, "UnitOperation")[1].feedStreams[1].streamName.name
           = <<"s">>
    /\ Len(table.symbols) = 1
    /\ table.symbols[1].key = <<"S">>


(***************************************************************************)
(* Pipeline claims                                                         *)
(***************************************************************************)

TypeAt(tokens, i) == IF i <= Len(tokens) THEN tokens[i].type ELSE "none"

\* the cursor position after the line that the token at position pos is on:
\* past the first NEWLINE or EOF from there on and past the NEWLINEs after it
LineEnd(tokens, pos) ==
    LET Ends(i) == tokens[i].type \in {"NEWLINE", "EOF"}
        first == CHOOSE i \in pos + 1..Len(tokens) :
                    Ends(i) /\ \A j \in pos + 1..i - 1 : ~Ends(j)
        next == CHOOSE i \in first..Len(tokens) :
                    /\ tokens[i].type # "NEWLINE"
                    /\ \A j \in first..i - 1 : tokens[j].type = "NEWLINE"
    IN  next - 1

StatementMethods ==
    {"parseComponentStatement", "parseStreamStatement",
     "parseThermodynamicStatement"}

\* C25: on a token sequence that ends in EOF and holds no unit-operations
\* header, parse() returns; an iteration of its loop skips the line at the
\* cursor, its end included, and pushes no node; an iteration of the loop of
\* a component, stream or thermodynamic statement parser consumes a token or
\* leaves the loop; and a statement parser called on a line that does not
\* start with one of its keywords skips that line, its end included, and
\* returns null.
C25_SkipsAndTerminates ==
    [][LET tokens == parser.tokens IN
       (\A i \in DOMAIN tokens : tokens[i].type # "UNIT_OPERATIONS") =>
            /\ ~parse(tokens).hang
            /\ (ppc = "top" /\ ppc' = "top") =>
                  /\ parser'.position > parser.position
                  /\ parser'.position >= LineEnd(tokens, parser.position)
                  /\ frame' = frame
            /\ ppc = "stmtline" =>
                  \/ parser'.position > parser.position
                  \/ ppc' # "stmtline"
            /\ (ppc = "new" /\ ppc' \in StatementMethods) =>
                  /\ parser'.position = LineEnd(tokens, parser.position)
                  /\ result' = <<>>]_vars

\* parse() has returned on `LIBID`, newline, `s1`: two lines skipped, no
\* section
C25_Witness ==
    /\ ppc = "done"
    /\ TypeAt(parser.tokens, 1) = "LIBID"
    /\ TypeAt(parser.tokens, 2) = "NEWLINE"
    /\ TypeAt(parser.tokens, 3) = "IDENTIFIER"
    /\ parser.position = 3
    /\ program[1].sections = <<>>

\* C26: when a statement parser has returned its node, the cursor does not
\* rest on a continuation marker that a newline follows, and for each such
\* marker the parser came to, with a token on the line after it, the node
\* reaches into that line: the marker and its newlines were consumed and the
\* statement went on with the tokens of the next physical line, with or
\* without a comma before the marker.
C26_Continuation ==
    (/\ ppc \in StatementMethods \union
                {"parseUnitOperation", "parsePrintStatement"}
     /\ result # <<>>) =>
        LET tokens == parser.tokens
            Marker(i) ==
                /\ TypeAt(tokens, i) = "CONTINUATION"
                /\ TypeAt(tokens, i + 1) = "NEWLINE"
        IN  \A i \in DOMAIN tokens :
                (Marker(i) /\ parser.position >= i - 1) =>
                    /\ parser.position >= i
                    /\ TypeAt(tokens, LineEnd(tokens, i) + 1) # "EOF" =>
                          result[1].endLine > tokens[i].line

\* token kinds of the group "Keywords - Common Parameters" of TokenType that
\* stand on the left of a parameter
ParameterKeywordKinds ==
    {"NAME", "TEMP", "TEMPERATURE", "PRES", "PRESSURE", "RATE", "SPEC"}

\* C28: parseParameter() called at `L = value`, L being an IDENTIFIER token
\* or a token of a reserved parameter-keyword kind, returns a Parameter
\* node whose name is the text of L.
C28_ParameterName ==
    (/\ ppc = "parseParameter"
     /\ TypeAt(parser.tokens, 1) \in {"IDENTIFIER"} \union ParameterKeywordKinds
     /\ TypeAt(parser.tokens, 2) = "EQUALS"
     /\ TypeAt(parser.tokens, 3) \in {"NUMBER", "IDENTIFIER", "STRING"})
        => /\ result # <<>>
           /\ result[1].type = "Parameter"
           /\ result[1].name.name = parser.tokens[1].value

C30_ListOrScalar ==
    ppc = "parseValue" =>
        LET tokens == parser.tokens
            listStart ==
                /\ TypeAt(tokens, 1) \in {"NUMBER", "IDENTIFIER"}
                /\ TypeAt(tokens, 2) \in {"COMMA", "SLASH"}
        IN  /\ result # <<>>
            /\ result[1].type = "List" <=> listStart
            /\ ~listStart => result[1].type \in {"Number", "String", "Identifier"}
            /\ listStart =>
                  result[1].separator =
                      (IF TypeAt(tokens, 2) = "SLASH" THEN "/" ELSE ",")

\* parseValue() has returned the list 2/s1
C30_Witness ==
    /\ ppc = "parseValue"
    /\ result # <<>>
    /\ result[1].type = "List"
    /\ result[1].separator = "/"
    /\ Len(result[1].values) = 2
    /\ result[1].values[1].type = "Number"
    /\ result[1].values[2].type = "Identifier"

\* the tokens are a statement `COMP = name` followed by pairs
\* `, name = value` of scalar values and the end of the line
IsPairLine(tokens) ==
    /\ Len(tokens) >= 9
    /\ (Len(tokens) - 5) % 4 = 0
    /\ TypeAt(tokens, 1) = "COMP"
    /\ TypeAt(tokens, 2) = "EQUALS"
    /\ TypeAt(tokens, 3) = "IDENTIFIER"
    /\ TypeAt(tokens, Len(tokens) - 1) = "NEWLINE"
    /\ \A k \in 1..((Len(tokens) - 5) \div 4) :
          /\ TypeAt(tokens, 4 * k) = "COMMA"
          /\ TypeAt(tokens, 4 * k + 1) \in {"IDENTIFIER", "TEMP", "PRES", "RATE"}
          /\ TypeAt(tokens, 4 * k + 2) = "EQUALS"
          /\ TypeAt(tokens, 4 * k + 3) \in {"NUMBER", "IDENTIFIER", "STRING"}

\* C37: when parseStreamStatement() has returned the statement of a line
\* `COMP = S, P1 = v1, P2 = v2` of comma-separated pairs with scalar values,
\* the statement has one Parameter for each pair, in the order of the line:
\* the name of the k-th Parameter is the name of the k-th pair and its value
\* is the scalar of that pair, not a List.
C37_PairsBecomeParameters ==
    (/\ ppc = "parseStreamStatement"
     /\ result # <<>>
     /\ IsPairLine(parser.tokens)) =>
        LET tokens == parser.tokens
            parameters == result[1].parameters
        IN  /\ Len(parameters) = (Len(tokens) - 5) \div 4
            /\ \A k \in DOMAIN parameters :
                  /\ parameters[k].name.name = tokens[4 * k + 1].value
                  /\ parameters[k].value.type \in
                         {"Number", "Identifier", "String"}
                  /\ parameters[k].value.startLine = tokens[4 * k + 3].line

\* the nodes a node owns, in the order of its fields
ChildrenOf(n) ==
    CASE n.type = "Program" -> n.sections
      [] n.type = "Section" -> n.statements
      [] n.type = "UnitOperation" ->
            n.uid \o n.parameters \o n.feedStreams \o n.productStreams
      [] n.type = "ComponentData" -> n.components
      [] n.type = "Component" -> n.libid
      [] n.type = "StreamData" -> <<n.streamName>> \o n.parameters
      [] n.type \in {"ThermodynamicData", "PrintStatement"} -> n.parameters
      [] n.type = "Parameter" -> <<n.name, n.value>>
      [] n.type = "List" -> n.values
      [] n.type = "StreamReference" -> <<n.streamName>>
      [] OTHER -> <<>>

RECURSIVE LinesNest(_)
\* the node and every node below it begin before they end, and lie within
\* the lines of the node that owns them
LinesNest(n) ==
    /\ n.startLine <= n.endLine
    /\ \A k \in DOMAIN ChildrenOf(n) :
          /\ n.startLine <= ChildrenOf(n)[k].startLine
          /\ ChildrenOf(n)[k].endLine <= n.endLine
          /\ LinesNest(ChildrenOf(n)[k])

\* C39: in every tree that parse() returns, and in every node that a private
\* method returns, each node satisfies startLine <= endLine and the lines of
\* each child lie within the lines of its parent.
C39_LineRangesNest ==
    /\ program # <<>> => LinesNest(program[1])
    /\ result # <<>> => LinesNest(result[1])

\* parse() has returned a tree whose section begins on line 1 and owns a
\* unit operation that begins on line 2
C39_Witness ==
    /\ ppc = "done"
    /\ program[1].sections # <<>>
    /\ program[1].sections[1].startLine = 1
    /\ program[1].sections[1].statements # <<>>
    /\ program[1].sections[1].statements[1].startLine = 2
    /\ program[1].endLine >= 2

\* the token types of words: identifiers and keywords
WordTypes == {"IDENTIFIER"} \cup {KEYWORDS[w] : w \in DOMAIN KEYWORDS}

RECURSIVE NamesIn(_)
\* the Component identifiers, stream names and uids of the nodes below n
NamesIn(n) ==
    CASE n.type = "Program" ->
            UNION {NamesIn(n.sections[k]) : k \in DOMAIN n.sections}
      [] n.type = "Section" ->
            UNION {NamesIn(n.statements[k]) : k \in DOMAIN n.statements}
      [] n.type = "UnitOperation" -> {n.uid[k].name : k \in DOMAIN n.uid}
      [] n.type = "ComponentData" ->
            {n.components[k].identifier : k \in DOMAIN n.components}
      [] n.type = "Component" -> {n.identifier}
      [] n.type = "StreamData" -> {n.streamName.name}
      [] OTHER -> {}

\* C38: in every tree that parse() returns and in every node that a private
\* method returns, each Component identifier, stream name and uid is the
\* text of an identifier or keyword token of the input, and the table built
\* from the tree has no empty, newline or punctuation key.
C38_NamesFromNameTokens ==
    /\ \A n \in {program[k] : k \in DOMAIN program}
                    \cup {result[k] : k \in DOMAIN result} :
          \A name \in NamesIn(n) :
              \E i \in DOMAIN parser.tokens :
                  /\ parser.tokens[i].type \in WordTypes
                  /\ parser.tokens[i].value = name
    /\ program # <<>> =>
          \A i \in DOMAIN FreshBuild(program[1], <<>>).symbols :
              FreshBuild(program[1], <<>>).symbols[i].key
                  \notin {<<>>, <<"\n">>, <<",">>, <<"/">>, <<"=">>}

(***************************************************************************)
(* Claims about section headers                                            *)
(***************************************************************************)

\* the token at index i begins a section header: UNIT, or COMPONENT, STREAM
\* or THERMODYNAMIC followed by DATA
HeaderAt(tokens, i) ==
    \/ TypeAt(tokens, i) = "UNIT_OPERATIONS"
    \/ /\ TypeAt(tokens, i) \in
              {"COMPONENT_DATA", "STREAM_DATA", "THERMODYNAMIC_DATA"}
       /\ TypeAt(tokens, i + 1) = "IDENTIFIER"
       /\ toUpperCase(tokens[i + 1].value) = <<"D", "A", "T", "A">>

\* the sections are in the order of their lines, and every statement lies
\* between the header of its section and the header of the next one
InDocumentOrder(node) ==
    \A k \in DOMAIN node.sections :
        LET section == node.sections[k] IN
        /\ k < Len(node.sections) =>
               section.startLine <= node.sections[k + 1].startLine
        /\ \A j \in DOMAIN section.statements :
               /\ section.startLine <= section.statements[j].startLine
               /\ k < Len(node.sections) =>
                      section.statements[j].startLine
                          <= node.sections[k + 1].startLine

\* C31: when the token at the start of a statement of a section begins a
\* section header, the statement loop is left with the cursor on that token
\* and the section is closed; the header found at the top level after a
\* section opens a new section on its line; and the tree that parse()
\* returns lists the sections in document order, each statement in the
\* section whose header precedes it.
C31_ImplicitSectionEnd ==
    [][/\ (ppc = "unitsec" /\ HeaderAt(parser.tokens, parser.position + 1)) =>
              /\ ppc' = "top"
              /\ parser'.position = parser.position
              /\ Len(frame'.sections) = Len(frame.sections) + 1
       /\ (/\ ppc = "top"
           /\ frame.sections # <<>>
           /\ ~isAtEnd(parser)
           /\ HeaderAt(parser.tokens, parser.position + 1)) =>
              /\ ppc' # "top"
              /\ frame'.startLine = current(parser).line
       /\ ppc' = "done" => InDocumentOrder(program'[1])]_vars

\* C32: when the token at the start of a top-level line begins no section
\* header, the step of the loop of parse() takes the cursor past the end of
\* that line, adds no Section and stays in the loop; and when the first line
\* of the input is such a line, every section header that begins a later
\* line has its Section in the tree that parse() returns.
C32_UnrecognizedLineSkipped ==
    [][/\ (/\ ppc = "top"
           /\ ~isAtEnd(parser)
           /\ ~HeaderAt(parser.tokens, parser.position + 1)) =>
              /\ parser'.position = LineEnd(parser.tokens, parser.position)
              /\ frame'.sections = frame.sections
              /\ ppc' = "top"
       /\ (/\ ppc' = "done"
           /\ ~HeaderAt(parser.tokens, 1)
           /\ TypeAt(parser.tokens, 1) \notin {"NEWLINE", "EOF"}) =>
              \A i \in 2..Len(parser.tokens) :
                  (/\ HeaderAt(parser.tokens, i)
                   /\ TypeAt(parser.tokens, i - 1) = "NEWLINE") =>
                      \E k \in DOMAIN program'[1].sections :
                          program'[1].sections[k].startLine
                              = parser.tokens[i].line]_vars

(***************************************************************************)
(* Pipeline claim: comments                                                *)
(***************************************************************************)

RECURSIVE Contents(_)
\* a node without its line numbers
Contents(n) ==
    LET Lists == {"sections", "statements", "components", "parameters",
                  "feedStreams", "productStreams", "values", "uid", "libid"}
        Nodes == IF n.type = "Parameter" THEN {"name", "value"}
                 ELSE IF n.type \in {"StreamReference", "StreamData"}
                 THEN {"streamName"}
                 ELSE {}
    IN  [f \in DOMAIN n \ {"startLine", "endLine"} |->
            IF f \in Lists THEN [k \in DOMAIN n[f] |-> Contents(n[f][k])]
            ELSE IF f \in Nodes THEN Contents(n[f])
            ELSE n[f]]

\* the text with a comment after the end of one line, or with a line that
\* holds only a comment before one line or after the last one
Commented(text) ==
    LET ends == {i \in DOMAIN text : text[i] = "\n"}
        starts == {1} \cup {i + 1 : i \in ends}
        Insert(i, chars) ==
            SubSeq(text, 1, i - 1) \o chars \o SubSeq(text, i, Len(text))
    IN  {Insert(i, <<" ", m, "c">>) : i \in ends, m \in {"$", "%"}}
            \cup {Insert(i, <<m, "c", "\n">>) : i \in starts, m \in {"$", "%"}}

\* C27: when a text has been parsed, the same text with a `$` or `%` comment
\* added at the end of a line, or with a comment-only line inserted, is
\* parsed to the end as well, and its tree has the same contents.
C27_CommentsIgnored ==
    ppc = "done" =>
        \A text \in Commented(lexer.input) :
            /\ ~parseText(text).hang
            /\ Contents(parseText(text).node[1]) = Contents(program[1])

(***************************************************************************)
(* Server claims                                                           *)
(***************************************************************************)

\* an event of the document was handled in the step
Handled(uri) ==
    <<documents[uri], outcome[uri]>>' # <<documents[uri], outcome[uri]>>

\* C21: when lexing or parsing has thrown in the handler of an open or
\* change event of a document, no tree is stored for the document's uri
\* afterwards, the tree of an earlier version included, and the server is
\* ready for the next event.
C21_UnparsedAfterThrow ==
    [][\A uri \in Uris :
          (Handled(uri) /\ outcome'[uri] = "threw") =>
              documentASTs'[uri] = <<>> /\ spc' = "idle"]_vars

\* C22: while the last open or change event of a document is one that was
\* handled without exception, the tree stored for the document's uri is the
\* tree parsed from the text of that event, whatever was stored before.
C22_LatestTree ==
    \A uri \in Uris :
        outcome[uri] = "parsed" =>
            /\ documents[uri] # <<>>
            /\ documentASTs[uri] = parseText(documents[uri][1]).node
            /\ documentASTs[uri] # <<>>

\* both documents are open and parsed, with texts of different trees
C22_Witness ==
    /\ outcome["a"] = "parsed" /\ outcome["b"] = "parsed"
    /\ documents["a"] = <<KelvinDocument>>
    /\ documents["b"] = <<SharedNameDocument>>
    /\ documentASTs["a"] # documentASTs["b"]
    /\ documentASTs["a"][1].sections # <<>>

(***************************************************************************)
(* Claims about the table during a build and about its queries             *)
(***************************************************************************)

\* C34: between the clear of a build and the return of that build, every
\* step only adds symbols or appends references: each symbol stays at its
\* place with its key, kind and definition position, and its reference list
\* before the step is the beginning of its reference list after it.
C34_MonotoneBuild ==
    [][bpc = "build" =>
          /\ Len(table'.symbols) >= Len(table.symbols)
          /\ \A i \in DOMAIN table.symbols :
                LET before == table.symbols[i]
                    after == table'.symbols[i]
                IN  /\ after.key = before.key
                    /\ after.kind = before.kind
                    /\ after.definedAt = before.definedAt
                    /\ Len(after.references) >= Len(before.references)
                    /\ SubSeq(after.references, 1, Len(before.references))
                           = before.references]_vars

\* a build under way has appended a reference to a stream symbol and has
\* calls left to make
C34_Witness ==
    /\ bpc = "build"
    /\ todo # <<>>
    /\ \E i \in DOMAIN table.symbols :
          /\ table.symbols[i].kind = "stream"
          /\ Len(table.symbols[i].references) >= 2

\* C36: after any build, every reference entry with role feed or product
\* belongs to a symbol of kind stream: a feed or product reference whose
\* name is, in upper case, a unit id or a component name registered before
\* is not recorded on that unit or component symbol.
C36_StreamReferencesOnly ==
    bpc = "built" =>
        \A i \in DOMAIN table.symbols :
            \A j \in DOMAIN table.symbols[i].references :
                table.symbols[i].references[j].context \in {"feed", "product"}
                    => table.symbols[i].kind = "stream"

\* C40: in every table state and for every name N, isDefined(N) is true
\* exactly when getSymbol(N) returns a symbol; a stream that is only
\* referenced as feed or product is defined in this sense and is among the
\* symbols of getUndefinedSymbols() as well.
C40_IsDefinedIffSymbol ==
    /\ \A N \in {<<"k">>, <<"K">>, <<"s">>, <<"S">>, <<"c", "1">>,
                 <<"C", "1">>, <<"x">>, <<Kelvin>>, <<>>} :
           isDefined(table, N) <=> getSymbol(table, N) # <<>>
    /\ \A i \in DOMAIN table.symbols :
           LET symbol == table.symbols[i] IN
           (/\ symbol.kind = "stream"
            /\ symbol.references # <<>>
            /\ \A j \in DOMAIN symbol.references :
                  symbol.references[j].context \in {"feed", "product"}) =>
               /\ isDefined(table, symbol.name)
               /\ isDefined(table, toLowerCase(symbol.name))
               /\ \E u \in DOMAIN getUndefinedSymbols(table) :
                     getUndefinedSymbols(table)[u] = symbol

\* the stream S is only a feed, written s in the tree: it is defined under
\* both spellings and reported as undefined
C40_Witness ==
    /\ bpc = "built"
    /\ \E i \in DOMAIN table.symbols :
          /\ table.symbols[i].kind = "stream"
          /\ table.symbols[i].name = <<"S">>
          /\ RoleCount(table.symbols[i], "feed") = Len(table.symbols[i].references)
    /\ isDefined(table, <<"s">>)
    /\ getSymbol(table, <<"s">>) # <<>>
    /\ getUndefinedSymbols(table) # <<>>

(***************************************************************************)
(* Server claim: the trees of the documents                                *)
(***************************************************************************)

\* C35: after any sequence of open, change and close events a tree is
\* stored for a uri only if the document of that uri is open, that is, was
\* opened or changed and not closed since; the step that handles a close
\* event removes the tree of its uri and leaves the tree stored for every
\* other uri as it was.
C35_DocumentLifecycle ==
    [][\A uri \in Uris :
          /\ documentASTs[uri] # <<>> => documents[uri] # <<>>
          /\ documentASTs'[uri] # <<>> => documents'[uri] # <<>>
          /\ (outcome'[uri] = "closed" /\ documents[uri] # <<>>) =>
                /\ documentASTs'[uri] = <<>>
                /\ \A other \in Uris \ {uri} :
                      documentASTs'[other] = documentASTs[other]]_vars

\* the document of a was closed after it had a tree, its tree is gone, and
\* the tree of b is stored
C35_Witness ==
    /\ outcome["a"] = "closed"
    /\ documents["a"] = <<>>
    /\ documentASTs["a"] = <<>>
    /\ outcome["b"] = "parsed"
    /\ documentASTs["b"] # <<>>

=========================================================================
